---- MODULE Spec2Model ----
(***************************************************************************)
(* One chat turn of POST /api/chat (src/src/app/api/chat/route.ts): the    *)
(* body of ReadableStream.start, i.e. the tool-use loop, the outbound SSE  *)
(* frames, the persistence of the assistant answer and the closing of the  *)
(* stream controller, together with a client that may disconnect while an  *)
(* awaited call is in flight (Spec, FairSpec).  The other components are   *)
(* modelled by specifications of their own over their own variables: the   *)
(* requests that append to a session (SessionSpec), the Vector Encoder     *)
(* (EncoderSpec), automatic retrieval before a turn (RetrieveSpec), the    *)
(* hybrid search (RankSpec), the creation and updates of an item and      *)
(* their background indexing (ItemSpec).                                   *)
(*                                                                         *)
(* A string is a sequence of tokens; concatenation is \o and '' is <<>>.   *)
(* Every token the model produces carries the number of the model response *)
(* that produced it.  `status` frames are counted (statusCount), all other *)
(* frames are logged in order (frames).                                    *)
(***************************************************************************)
EXTENDS Integers, Sequences, FiniteSets, TLC

\* Program constant: `for (let turn = 0; turn < 10; turn++)`.
MaxTurns == 10

\* Bounds of the environment.
MaxTools == 2       \* tool_use blocks in one model response
MaxChunks == 2      \* text blocks / streamed text chunks in one response

MaxRequests == 2    \* concurrent chat requests on one session
MaxTurnRequests == 1  \* of which those followed to the end of their turn
MaxOver == 1        \* inputs of one encoder call beyond one full batch

MaxRows == 6         \* spark_items rows of one workspace

\* embeddings.ts 111: const BATCH_SIZE = 50.
BatchSize == 50

MaxItems == 3        \* rows a hybrid search can rank
MaxPatches == 2      \* PATCH requests on one item

MaxCalls == 2        \* tool_use blocks of the round of ToolRoundSpec
MaxVecRows == 3      \* spark_items rows the vectors endpoint reads
Dim == 3             \* dimension of an embedding
MaxDriveText == 2    \* length of a short Drive file

\* route.ts 240, 308: .limit(5) of the recent-items query.
FallbackLimit == 5

\* 003_multimodal_embeddings.sql 63, 66: match_count int default 10,
\* rrf_k int default 50.
DefaultMatchCount == 10
DefaultRrfK == 50

\* 003_multimodal_embeddings.sql 92, 102: least(match_count, 30).
SourceCap == 30

\* lib/google/drive.ts: const MAX_EXPORT_BYTES = 100 * 1024.
MAX_EXPORT_BYTES == 102400

NoSession == "null"
\* A nullable column: <<>> when null, <<value>> otherwise.
Absent == <<>>
Present(value) == <<value>>

Requests == 1..MaxRequests
TurnRequests == 1..MaxTurnRequests
IdleRequest == [pc |-> "idle", kind |-> "none", snapshot |-> <<>>,
                session |-> NoSession, rpc |-> "none", skip |-> FALSE,
                full |-> FALSE]

VARIABLES
  pc,            \* position of start(): an awaited call, or "begin"/"closed"
  turn,          \* the loop variable
  skip_persist,  \* request field
  sessionId,     \* session of the turn, NoSession when there is none
  ragRanked,     \* ragContext.items.length > 0
  fullResponse,  \* the accumulated answer
  textBuffer,    \* chunks buffered from the last streamed round
  tools,         \* executeTool calls of the current round: their state
  ctxResults,    \* tool_result blocks appended to `messages`
  modelCalls,    \* model responses received
  toolRounds,    \* model responses accepted as tool rounds
  toolsStarted,  \* executeTool calls started
  allToolUse,    \* every model response so far held a tool_use block
  frames,        \* frames enqueued, `status` frames excepted
  statusCount,   \* `status` frames enqueued
  lastFrame,     \* type of the last frame enqueued
  streamState,   \* "readable", "closed" (by close()), "cancelled" (by the client)
  closeCalls,    \* controller.close() calls that closed the stream
  closeErrors,   \* controller.close() calls on a stream no longer readable
  lateWrites,    \* controller.enqueue() calls on a stream no longer readable
  abortCause,    \* what raised the exception caught at the top level
  insertOutcome, \* outcome of the assistant-message insert
  assistantTurns,\* contents of the assistant rows stored by this turn
  sessionTouched,\* chat_sessions.updated_at was written
  embedRequested,\* POST /api/chat/embed was requested
  embedStatus,   \* how the re-embed request ended
  sessionEmbedding, \* chat_sessions.embedding of the session of the turn
  \* -- the other components, one record each
  vec,           \* GET /api/sparks/[id]/vectors on one workspace
  rnd,           \* one tool round of a chat turn and its executeTool calls
  drv,           \* one Drive item: its export and its indexing
  sess,          \* the session S and the requests that write to it
  enc,           \* one call of the Vector Encoder (lib/embeddings.ts)
  ret,           \* automatic retrieval of one chat request
  rank,          \* hybrid_search_spark_items on one workspace
  itm            \* one item: its creation and its updates

\* The session S and the requests that write to it.
userMessages == sess.userMessages  \* chat_sessions.user_messages of S
userTurns == sess.userTurns        \* contents of the user rows, in order
newSessions == sess.newSessions    \* sessions created by the requests
req == sess.req                    \* per request: position and what it holds
assistantRows == sess.assistantRows  \* requests whose assistant row is stored
touched == sess.touched            \* requests that wrote updated_at
reembeds == sess.reembeds          \* requests that sent POST /api/chat/embed

\* One call of the Vector Encoder.
apiKey == enc.apiKey          \* VOYAGE_API_KEY is set
encCall == enc.encCall        \* the exported function called, its inputs
encOffset == enc.encOffset    \* the loop variable i of generateEmbeddings
allResults == enc.allResults  \* the results collected so far
encOrders == enc.encOrders    \* how the provider answered each request
encState == enc.encState      \* "idle", "running", "returned" or "threw"
encReturn == enc.encReturn    \* the value returned to the caller

\* Automatic retrieval of one chat request (retrieveContext).
sparkItems == ret.sparkItems          \* the spark_items rows of the workspace
retPc == ret.retPc                    \* position in retrieveContext
retEncoder == ret.retEncoder          \* how the encoder call went
queryEmbedding == ret.queryEmbedding  \* value of generateQueryEmbedding
retStorage == ret.retStorage          \* "ok" or "error": recent-items query
ragContext == ret.ragContext          \* the value returned by retrieveContext
httpResponse == ret.httpResponse      \* "none", "stream" or "failed"
sentAtStart == ret.sentAtStart        \* frames sent before the first model request

\* hybrid_search_spark_items on one workspace.
fullTextRanking == rank.fullTextRanking  \* rows matching the text, best first
semanticRanking == rank.semanticRanking  \* rows with an embedding, nearest first
searchParams == rank.searchParams        \* match_count, the weights, rrf_k
fused == rank.fused          \* the rows returned by the last search; they
                             \* come by score, equal scores in any order
promotion == rank.promotion  \* the row promoted since, its score before
rankPc == rank.rankPc        \* "idle", "searched", "promoted", "researched"

\* One tool round of a chat turn.
calls == rnd.calls        \* the tool_use blocks of the model response
callState == rnd.callState  \* per block: "pending", "running", "done", "failed"
resolved == rnd.resolved  \* the calls that resolved, in order of completion
statuses == rnd.statuses  \* the `status` frames sent, in order
toolResults == rnd.toolResults  \* the tool_result blocks given to the model
roundPc == rnd.roundPc    \* "idle", "tools", "requested" or "aborted"
readable == rnd.readable  \* the response stream is readable
half == rnd.half          \* 1: lines 492-524, 2: lines 547-568

\* GET /api/sparks/[id]/vectors on one workspace.
vecRows == vec.vecRows          \* the spark_items rows, newest first
vecPc == vec.vecPc              \* "idle", "query" or "done"
vecResponse == vec.vecResponse  \* the JSON body of the response

\* One item: its creation (POST /api/items) and updates (PATCH).
item == itm.item  \* the spark_items row of the item
op == itm.op      \* per request: position, body, response, background work

\* One Drive item: exportDriveAndEnrich after its creation.
driveItem == drv.driveItem        \* the spark_items row of the item
drivePc == drv.drivePc            \* position in exportDriveAndEnrich
driveMimeType == drv.driveMimeType  \* kind of metadata.drive_mime_type
driveFetch == drv.driveFetch      \* what the request to Drive did
exportedText == drv.exportedText  \* the value of exportFileContent
driveWrite == drv.driveWrite      \* the update being sent: its fields
driveText == drv.driveText        \* the text given to the encoder
driveOutcome == drv.driveOutcome  \* how the encoder call and its write ended

chatVars == <<pc, turn, skip_persist, sessionId, ragRanked, fullResponse, textBuffer,
          tools, ctxResults, modelCalls, toolRounds, toolsStarted, allToolUse,
          frames, statusCount, lastFrame, streamState, closeCalls, closeErrors,
          lateWrites, abortCause, insertOutcome, assistantTurns, sessionTouched,
          embedRequested, embedStatus, sessionEmbedding>>

vars == <<chatVars, sess, enc, ret, rank, itm, vec, rnd, drv>>

\* What a chat turn leaves alone.
notChatVars == <<sess, enc, ret, rank, itm, vec, rnd, drv>>
\* What the requests of SessionSpec leave alone.
notSessVars == <<chatVars, enc, ret, rank, itm, vec, rnd, drv>>
\* What the Vector Encoder leaves alone.
notEncVars == <<chatVars, sess, ret, rank, itm, vec, rnd, drv>>
\* What automatic retrieval leaves alone.
notRetVars == <<chatVars, sess, enc, rank, itm, vec, rnd, drv>>
\* What the hybrid search leaves alone.
notRankVars == <<chatVars, sess, enc, ret, itm, vec, rnd, drv>>
\* What the requests on an item leave alone.
notItemVars == <<chatVars, sess, enc, ret, rank, vec, rnd, drv>>
\* What the vectors endpoint leaves alone.
notVecVars == <<chatVars, sess, enc, ret, rank, itm, rnd, drv>>
\* What a tool round leaves alone.
notRoundVars == <<chatVars, sess, enc, ret, rank, itm, vec, drv>>
\* What the work on a Drive item leaves alone.
notDriveVars == <<chatVars, sess, enc, ret, rank, itm, vec, rnd>>

reqVars == <<skip_persist, sessionId, ragRanked>>
outVars == <<frames, statusCount, lastFrame, streamState, closeCalls,
             closeErrors, lateWrites>>
dbVars == <<insertOutcome, assistantTurns, sessionTouched, embedRequested>>
embVars == <<embedStatus, sessionEmbedding>>
loopVars == <<turn, fullResponse, textBuffer, tools, ctxResults, modelCalls,
              toolRounds, toolsStarted, allToolUse>>

----
\* Frames and strings

Frame(t, c) == [type |-> t, content |-> c]

RECURSIVE Concat(_)
Concat(chunks) ==
  IF chunks = <<>> THEN <<>> ELSE Head(chunks) \o Concat(Tail(chunks))

RECURSIVE TextFrames(_)
TextFrames(chunks) ==
  IF chunks = <<>> THEN <<>>
  ELSE <<Frame("text", Head(chunks))>> \o TextFrames(Tail(chunks))

RECURSIVE NonEmpty(_)
NonEmpty(chunks) ==
  IF chunks = <<>> THEN <<>>
  ELSE (IF Head(chunks) = <<>> THEN <<>> ELSE <<Head(chunks)>>)
       \o NonEmpty(Tail(chunks))

FramesOf(t) == SelectSeq(frames, LAMBDA f : f.type = t)

RECURSIVE Contents(_)
Contents(fs) ==
  IF fs = <<>> THEN <<>> ELSE <<Head(fs).content>> \o Contents(Tail(fs))

\* The text the client has received, in order.
EmittedText == Concat(Contents(FramesOf("text")))

----
\* Model responses

StopReasons == {"end_turn", "tool_use", "max_tokens"}

\* The chunks response number n can hold: each is '' or one token.
ChunkSeqs(n) ==
  UNION { [1..k -> {<<>>, <<n>>}] : k \in 0..MaxChunks }

Responses(n) ==
  [stop_reason : StopReasons, toolUses : 0..MaxTools, text : ChunkSeqs(n)]

IsFinal(resp) == resp.stop_reason = "end_turn" \/ resp.toolUses = 0

----
\* The decisions of the loop

LoopContinuesOffByOne(t) == t <= MaxTurns

\* Line 467: the loop test.
LoopContinues(t) == t < MaxTurns

\* Lines 481-488: the text a non-streamed response sends to the client.
CreateText(resp) == IF IsFinal(resp) THEN NonEmpty(resp.text) ELSE <<>>

StreamTextUnbuffered(resp) == resp.text

\* Lines 538-543: the buffered chunks a streamed response sends to the client.
StreamText(resp) == IF IsFinal(resp) THEN resp.text ELSE <<>>

ShouldPersistEmpty(full, skip) == ~skip

\* Line 573: the condition of the assistant-message insert.
ShouldPersist(full, skip) == full # <<>> /\ ~skip

----
\* Session re-embedding

\* The provider (Voyage AI): the vector is a function of the text and of
\* the input type.
ProviderVector(text, inputType) == [vector |-> text, input_type |-> inputType]

\* embeddings.ts 72-79, generateEmbedding with the encoder available.
Encoding(text) == ProviderVector(text, "document")

\* The token that separates the utterances in the text of a session.
BlankLine == -1

\* The utterances joined with blank lines.
RECURSIVE JoinUtterances(_)
JoinUtterances(msgs) ==
  IF msgs = <<>> THEN <<>>
  ELSE IF Len(msgs) = 1 THEN <<Head(msgs)>>
  ELSE <<Head(msgs), BlankLine>> \o JoinUtterances(Tail(msgs))

\* chat/route.ts 598-602: the body of the re-embed request.
EmbedRequestBody(sid) == [session_id |-> sid]

\* chat/embed/route.ts 6-42, POST /api/chat/embed: a body without a
\* non-empty message_ids array is answered 400; otherwise the listed
\* chat_messages rows are embedded.  No branch writes chat_sessions.
EmbedRoute(body, stored) ==
  IF "message_ids" \notin DOMAIN body \/ body.message_ids = <<>>
    THEN [status |-> "400", sessionEmbedding |-> stored]
    ELSE [status |-> "200", sessionEmbedding |-> stored]

----
\* The stream controller

\* Lines 348-430: the state in which start() is entered.
ChatStart(skip, sid, ranked) ==
  /\ pc = "begin"
  /\ turn = 0
  /\ skip_persist = skip
  /\ sessionId = sid
  /\ ragRanked = ranked
  /\ fullResponse = <<>>
  /\ textBuffer = <<>>
  /\ tools = <<>>
  /\ ctxResults = 0
  /\ modelCalls = 0
  /\ toolRounds = 0
  /\ toolsStarted = 0
  /\ allToolUse = TRUE
  /\ frames = <<>>
  /\ statusCount = 0
  /\ lastFrame = "none"
  /\ streamState = "readable"
  /\ closeCalls = 0
  /\ closeErrors = 0
  /\ lateWrites = 0
  /\ abortCause = "none"
  /\ insertOutcome = "none"
  /\ assistantTurns = <<>>
  /\ sessionTouched = FALSE
  /\ embedRequested = FALSE
  /\ embedStatus = "none"
  /\ sessionEmbedding = Absent

ChatIdle == ChatStart(TRUE, NoSession, FALSE)

\* The session S holds the utterance of the request that created it; no
\* request is in progress.
SessIdle ==
  sess = [userMessages |-> <<0>>, userTurns |-> <<0>>, newSessions |-> {},
          req |-> [r \in Requests |-> IdleRequest],
          assistantRows |-> {}, touched |-> {}, reembeds |-> {}]

\* No encoder call is in progress.
EncIdle ==
  enc = [apiKey |-> FALSE, encCall |-> [fn |-> "none", n |-> 0],
         encOffset |-> 0, allResults |-> <<>>, encOrders |-> <<>>,
         encState |-> "idle", encReturn |-> <<>>]

\* route.ts 241: { text: '', images: [], items: [] }.
NoContext == [label |-> "none", entries |-> <<>>, sessions |-> FALSE,
              items |-> <<>>]

\* No retrieval is in progress, on a workspace holding `rows`.
RetStart(rows) ==
  ret = [sparkItems |-> rows, retPc |-> "idle", retEncoder |-> "none",
         queryEmbedding |-> Absent, retStorage |-> "none",
         ragContext |-> NoContext, httpResponse |-> "none",
         sentAtStart |-> <<>>]

RetIdle == RetStart({})

\* A score as an exact fraction with a positive denominator.
Frac(n, d) == [num |-> n, den |-> d]

\* 003_multimodal_embeddings.sql 59-67: the parameters at their defaults.
DefaultParams == [match_count |-> DefaultMatchCount, full_text_weight |-> 1,
                  semantic_weight |-> 1, rrf_k |-> DefaultRrfK]

\* No search has run.
RankStart(lexical, semantic, params) ==
  rank = [fullTextRanking |-> lexical, semanticRanking |-> semantic,
          searchParams |-> params, fused |-> {},
          promotion |-> [id |-> 0, was |-> Frac(0, 1)], rankPc |-> "idle"]

RankIdle == RankStart(<<>>, <<>>, DefaultParams)

\* Request 0 is the POST that creates the item, the others are PATCHes.
Ops == 0..MaxPatches

\* No row yet. A field holding 0 is empty ('' or null).
NoRow == [type |-> "none", title |-> 0, content |-> 0, summary |-> 0,
          metadata |-> [tags |-> 0, url |-> 0], embedding |-> Absent]

\* The text of no item.
NoText == [type |-> "none", title |-> Absent, content |-> Absent,
           summary |-> Absent, tags |-> Absent, url |-> Absent]

NoBody == [field |-> "none", value |-> 0]

\* body and text are locals of the handler and of its background work: they
\* are kept while something still reads them.
IdleOp == [pc |-> "idle", body |-> NoBody, response |-> "none",
           text |-> NoText, outcome |-> "none"]

\* No request on the item has been made.
ItemIdle ==
  itm = [item |-> NoRow, op |-> [r \in Ops |-> IdleOp]]

\* No model response has requested a tool.
RoundIdle ==
  rnd = [calls |-> <<>>, callState |-> <<>>, resolved |-> <<>>,
         statuses |-> <<>>, toolResults |-> Absent, roundPc |-> "idle",
         readable |-> TRUE, half |-> 1]

\* No response yet.
NoVectors == [status |-> "none", items |-> <<>>, edges |-> <<>>]

\* No request on the vectors endpoint has been made, on the rows `rows`.
VecStart(rows) ==
  vec = [vecRows |-> rows, vecPc |-> "idle", vecResponse |-> NoVectors]

VecIdle == VecStart(<<>>)

\* No update is being sent.
NoWrite == [content |-> 0, summary |-> 0, status |-> "none"]

\* No Drive item has been created.
DriveIdle ==
  drv = [driveItem |-> NoRow, drivePc |-> "idle", driveMimeType |-> "none",
         driveFetch |-> "none", exportedText |-> Absent,
         driveWrite |-> NoWrite, driveText |-> NoText,
         driveOutcome |-> "none"]

Init ==
  /\ \E skip \in BOOLEAN, sid \in {NoSession, "s1"}, ranked \in BOOLEAN :
       ChatStart(skip, sid, ranked)
  /\ SessIdle
  /\ EncIdle
  /\ RetIdle
  /\ RankIdle
  /\ ItemIdle /\ DriveIdle /\ RoundIdle /\ VecIdle

\* Lines 613-615: finally { controller.close() }.  close() closes a readable
\* stream and throws on a stream that is closed or cancelled.
CloseController ==
  IF streamState = "readable"
    THEN /\ streamState' = "closed"
         /\ closeCalls' = closeCalls + 1
         /\ closeErrors' = closeErrors
    ELSE /\ streamState' = streamState
         /\ closeCalls' = closeCalls
         /\ closeErrors' = closeErrors + 1

RaiseAndCloseInCatch(cause) ==
  /\ abortCause' = cause
  /\ pc' = "closed"
  /\ statusCount' = statusCount
  /\ frames' = IF streamState = "readable"
                 THEN Append(frames, Frame("error", <<>>)) ELSE frames
  /\ lastFrame' = IF streamState = "readable" THEN "error" ELSE lastFrame
  /\ lateWrites' = IF streamState = "readable" THEN lateWrites
                    ELSE lateWrites + (IF cause = "enqueue" THEN 2 ELSE 1)
  /\ streamState' = IF streamState = "readable" THEN "closed" ELSE streamState
  /\ closeCalls' = IF streamState = "readable" THEN closeCalls + 1
                    ELSE closeCalls
  /\ closeErrors' = closeErrors + 1

\* Lines 609-615: an exception raised inside try.  The catch block sends the
\* `error` frame; enqueue() throws on a stream that is no longer readable.
\* With cause "enqueue" the exception is the one of a send inside try.
Raise(cause) ==
  /\ abortCause' = cause
  /\ pc' = "closed"
  /\ statusCount' = statusCount
  /\ IF streamState = "readable"
       THEN /\ frames' = Append(frames, Frame("error", <<>>))
            /\ lastFrame' = "error"
            /\ lateWrites' = lateWrites
       ELSE /\ frames' = frames
            /\ lastFrame' = lastFrame
            /\ lateWrites' = lateWrites + (IF cause = "enqueue" THEN 2 ELSE 1)
  /\ CloseController

\* Lines 432-433: send() of the frames fs and then of ns `status` frames on a
\* readable stream, after which start() suspends at the awaited call `next`.
Suspend(fs, ns, next) ==
  /\ frames' = frames \o fs
  /\ statusCount' = statusCount + ns
  /\ lastFrame' = IF ns > 0 THEN "status"
                  ELSE IF fs # <<>> THEN fs[Len(fs)].type ELSE lastFrame
  /\ pc' = next
  /\ UNCHANGED <<streamState, closeCalls, closeErrors, lateWrites, abortCause>>

\* Lines 608 and 613-615: the frames fs, the `done` frame, and the close.
Finish(fs) ==
  /\ frames' = frames \o fs \o <<Frame("done", <<>>)>>
  /\ statusCount' = statusCount
  /\ lastFrame' = "done"
  /\ pc' = "closed"
  /\ UNCHANGED <<lateWrites, abortCause>>
  /\ CloseController

\* Lines 571-608, entered with the text chunks the last round sends: the
\* chunks are added to fullResponse and sent one by one, then the answer is
\* saved or the turn ends.
LeaveLoop(chunks) ==
  LET full == fullResponse \o Concat(chunks) IN
  IF streamState # "readable"
       /\ (chunks # <<>> \/ ~ShouldPersist(full, skip_persist))
    THEN /\ fullResponse' = fullResponse
                              \o (IF chunks # <<>> THEN Head(chunks) ELSE <<>>)
         /\ Raise("enqueue")
    ELSE /\ fullResponse' = full
         /\ IF ShouldPersist(full, skip_persist)
              THEN Suspend(TextFrames(chunks), 0, "insert")
              ELSE Finish(TextFrames(chunks))

\* Lines 492-507 and 547-566: the text `flushed` before, one `status` frame
\* per tool_use block, then every executeTool call is started.
ToolRound(resp, flushed, next) ==
  IF streamState # "readable"
    THEN /\ Raise("enqueue")
         /\ fullResponse' = fullResponse
                              \o (IF flushed # <<>> THEN Head(flushed) ELSE <<>>)
         /\ UNCHANGED <<tools, toolRounds, toolsStarted>>
    ELSE /\ Suspend(TextFrames(flushed), resp.toolUses, next)
         /\ fullResponse' = fullResponse \o Concat(flushed)
         /\ tools' = [i \in 1..resp.toolUses |-> "running"]
         /\ toolRounds' = toolRounds + 1
         /\ toolsStarted' = toolsStarted + resp.toolUses

----
\* The steps of start()

\* Lines 431-474: the `context` frame, then the first model request.
StartStream ==
  /\ pc = "begin"
  /\ Suspend(IF ragRanked THEN <<Frame("context", <<>>)>> ELSE <<>>, 0,
             IF LoopContinues(turn) THEN "create" ELSE "closed")
  /\ UNCHANGED <<reqVars, dbVars, loopVars>>
  /\ UNCHANGED <<embVars, notChatVars>>

\* Lines 468-507: anthropic.messages.create resolves.
CreateReturns ==
  /\ pc = "create"
  /\ \E resp \in Responses(modelCalls + 1) :
       /\ modelCalls' = modelCalls + 1
       /\ allToolUse' = (allToolUse /\ resp.toolUses > 0)
       /\ IF IsFinal(resp)
            THEN /\ LeaveLoop(CreateText(resp))
                 /\ UNCHANGED <<tools, toolRounds, toolsStarted>>
            ELSE ToolRound(resp, CreateText(resp), "tools")
  /\ UNCHANGED <<reqVars, dbVars, turn, textBuffer, ctxResults>>
  /\ UNCHANGED <<embVars, notChatVars>>

\* Lines 468, 532: the model request rejects.
ModelThrows ==
  /\ pc \in {"create", "stream"}
  /\ Raise("model")
  /\ UNCHANGED <<reqVars, dbVars, loopVars>>
  /\ UNCHANGED <<embVars, notChatVars>>

\* Lines 532-566: stream.finalMessage() resolves; the chunks of the round
\* have been pushed to textBuffer.
StreamReturns ==
  /\ pc = "stream"
  /\ \E resp \in Responses(modelCalls + 1) :
       /\ modelCalls' = modelCalls + 1
       /\ allToolUse' = (allToolUse /\ resp.toolUses > 0)
       /\ textBuffer' = resp.text
       /\ IF IsFinal(resp)
            THEN /\ LeaveLoop(StreamText(resp))
                 /\ UNCHANGED <<tools, toolRounds, toolsStarted>>
            ELSE ToolRound(resp, StreamText(resp), "tools2")
  /\ UNCHANGED <<reqVars, dbVars, turn, ctxResults>>
  /\ UNCHANGED <<embVars, notChatVars>>


AllOk(ts) == \A i \in DOMAIN ts : ts[i] = "ok"

\* Lines 498-524 and 557-569: an executeTool call resolves.  When it is the
\* last one of the round, Promise.all resolves: the results are appended to
\* `messages`; after the first half of an iteration the streamed request is
\* made, after the second half the loop variable is incremented and tested;
\* a new iteration starts without the textBuffer of the previous one.
ToolReturns ==
  /\ pc \in {"tools", "tools2"}
  /\ \E i \in DOMAIN tools :
       /\ tools[i] = "running"
       /\ LET settled == [tools EXCEPT ![i] = "ok"] IN
          IF ~AllOk(settled)
            THEN /\ tools' = settled
                 /\ UNCHANGED <<pc, turn, fullResponse, textBuffer, ctxResults,
                                outVars, abortCause>>
            ELSE /\ tools' = <<>>
                 /\ ctxResults' = ctxResults + Len(tools)
                 /\ IF pc = "tools"
                      THEN /\ textBuffer' = <<>>
                           /\ UNCHANGED <<turn, fullResponse>>
                           /\ IF streamState = "readable"
                                THEN Suspend(<<>>, 1, "stream")
                                ELSE Raise("enqueue")
                      ELSE /\ turn' = turn + 1
                           /\ IF LoopContinues(turn + 1)
                                THEN /\ Suspend(<<>>, 0, "create")
                                     /\ textBuffer' = <<>>
                                     /\ UNCHANGED fullResponse
                                ELSE /\ LeaveLoop(<<>>)
                                     /\ textBuffer' = textBuffer
  /\ UNCHANGED <<reqVars, dbVars, modelCalls, toolRounds, toolsStarted,
                 allToolUse>>
  /\ UNCHANGED <<embVars, notChatVars>>

\* Lines 138-202 and 498-507: executeTool has no try/catch, so an exception
\* of the encoder or storage call it makes rejects Promise.all, which rejects
\* the await of the round; the other calls of the round stay in flight.
ToolThrows ==
  /\ pc \in {"tools", "tools2"}
  /\ \E i \in DOMAIN tools :
       /\ tools[i] = "running"
       /\ tools' = [tools EXCEPT ![i] = "failed"]
  /\ Raise("tool")
  /\ UNCHANGED <<reqVars, dbVars, turn, fullResponse, textBuffer, ctxResults,
                 modelCalls, toolRounds, toolsStarted, allToolUse>>
  /\ UNCHANGED <<embVars, notChatVars>>

\* An executeTool call left in flight by a rejected round settles; nothing
\* awaits it any more.
StrayToolSettles ==
  /\ pc = "closed"
  /\ \E i \in DOMAIN tools, outcome \in {"ok", "failed"} :
       /\ tools[i] = "running"
       /\ tools' = [tools EXCEPT ![i] = outcome]
  /\ UNCHANGED <<pc, reqVars, dbVars, outVars, abortCause, turn, fullResponse,
                 textBuffer, ctxResults, modelCalls, toolRounds, toolsStarted,
                 allToolUse>>
  /\ UNCHANGED <<embVars, notChatVars>>

\* Lines 574-605: the insert of the assistant message resolves, with a row
\* or with an error the code does not look at; with a session the update of
\* its timestamp is awaited next, without one the turn ends.
InsertReturns ==
  /\ pc = "insert"
  /\ \E outcome \in {"ok", "error"} :
       /\ insertOutcome' = outcome
       /\ assistantTurns' = IF outcome = "ok"
                              THEN Append(assistantTurns, fullResponse)
                              ELSE assistantTurns
  /\ IF sessionId # NoSession
       THEN Suspend(<<>>, 0, "update")
       ELSE IF streamState = "readable" THEN Finish(<<>>) ELSE Raise("enqueue")
  /\ UNCHANGED <<reqVars, loopVars, sessionTouched, embedRequested>>
  /\ UNCHANGED <<embVars, notChatVars>>

\* Lines 589-604: the timestamp update resolves, then the re-embed request
\* is made.
UpdateReturns ==
  /\ pc = "update"
  /\ \E outcome \in {"ok", "error"} : sessionTouched' = (outcome = "ok")
  /\ embedRequested' = TRUE
  /\ Suspend(<<>>, 0, "embed")
  /\ UNCHANGED <<reqVars, loopVars, insertOutcome, assistantTurns>>
  /\ UNCHANGED <<embVars, notChatVars>>

\* Lines 574, 589: an awaited storage call rejects.
StorageThrows ==
  /\ pc \in {"insert", "update"}
  /\ insertOutcome' = IF pc = "insert" THEN "threw" ELSE insertOutcome
  /\ Raise("storage")
  /\ UNCHANGED <<reqVars, loopVars, assistantTurns, sessionTouched,
                 embedRequested>>
  /\ UNCHANGED <<embVars, notChatVars>>

\* Lines 598-608: the re-embed request is answered by POST /api/chat/embed
\* or rejects (the rejection is swallowed by .catch), then the `done` frame
\* is sent.
EmbedSettles ==
  /\ pc = "embed"
  /\ \E delivered \in BOOLEAN :
       LET reply == EmbedRoute(EmbedRequestBody(sessionId), sessionEmbedding) IN
       /\ embedStatus' = IF delivered THEN reply.status ELSE "rejected"
       /\ sessionEmbedding' = IF delivered THEN reply.sessionEmbedding
                               ELSE sessionEmbedding
  /\ IF streamState = "readable" THEN Finish(<<>>) ELSE Raise("enqueue")
  /\ UNCHANGED <<reqVars, loopVars, dbVars>>
  /\ UNCHANGED notChatVars

\* The client disconnects while start() is suspended at an awaited call: the
\* response stream is cancelled.  start() registers no cancel callback and
\* holds no abort signal.
Cancel ==
  /\ pc \notin {"begin", "closed"}
  /\ streamState = "readable"
  /\ streamState' = "cancelled"
  /\ UNCHANGED <<pc, reqVars, dbVars, loopVars, frames, statusCount, lastFrame,
                 closeCalls, closeErrors, lateWrites, abortCause>>
  /\ UNCHANGED <<embVars, notChatVars>>

Progress ==
  \/ StartStream
  \/ CreateReturns
  \/ StreamReturns
  \/ ModelThrows
  \/ ToolReturns
  \/ ToolThrows
  \/ StrayToolSettles
  \/ InsertReturns
  \/ UpdateReturns
  \/ StorageThrows
  \/ EmbedSettles

Next == Progress \/ Cancel

Spec == Init /\ [][Next]_vars

\* Every awaited call settles.
FairSpec == Spec /\ WF_vars(Progress)

----
\* The requests on the session S: lines 349-401 of POST /api/chat

ArrayAppendToSnapshot(latest, snapshot, m) == Append(snapshot, m)

\* 006_session_embeddings.sql 44-46: one UPDATE statement.  It takes its
\* snapshot when it starts and, once it holds the row lock, evaluates
\* array_append on the latest committed version of the row.
ArrayAppend(latest, snapshot, m) == Append(latest, m)

\* Lines 358-363, 380: what the request does with the session before the
\* turn: nothing with skip_persist, an insert without a session id, the RPC
\* with one.
RequestKindIgnoringSkip(skip, sid) ==
  IF sid = NoSession THEN "new" ELSE "existing"

RequestKind(skip, sid) ==
  IF skip THEN "skip"
  ELSE IF sid = NoSession THEN "new"
  ELSE "existing"

\* Lines 349-386: the request is read.  With skip_persist nothing is stored;
\* without a session id a session is inserted; with one the RPC
\* append_session_user_message is called, whose UPDATE starts here.
\* The message of request r is r.
Receive(r) ==
  /\ req[r].pc = "idle"
  /\ \E skip \in BOOLEAN, sid \in {NoSession, "s1"} :
       LET kind == RequestKind(skip, sid)
       IN sess' = [sess EXCEPT !.req[r] =
                    [pc |-> CASE kind = "skip" -> "loaded"
                              [] kind = "new" -> "creating"
                              [] OTHER -> "rpc",
                     kind |-> kind,
                     snapshot |-> IF kind = "existing" THEN userMessages
                                  ELSE <<>>,
                     session |-> sid,
                     rpc |-> "none",
                     skip |-> skip,
                     full |-> FALSE]]
  /\ UNCHANGED notSessVars

\* Lines 364-379: the insert of the new session resolves; on an error the
\* request goes on without a session.
CreateSessionReturns(r) ==
  /\ req[r].pc = "creating"
  /\ \E outcome \in {"ok", "error"} :
       sess' = [sess EXCEPT
                  !.newSessions =
                     IF outcome = "ok"
                       THEN @ \cup {[id |-> r, user_messages |-> <<r>>]}
                       ELSE @,
                  !.req[r].pc = "saving",
                  !.req[r].session = IF outcome = "ok" THEN "new"
                                     ELSE NoSession]
  /\ UNCHANGED notSessVars

\* Lines 382-385: the RPC resolves; its result is not looked at.
AppendReturns(r) ==
  /\ req[r].pc = "rpc"
  /\ \E outcome \in {"ok", "error"} :
       sess' = [sess EXCEPT
                  !.userMessages =
                     IF outcome = "ok"
                       THEN ArrayAppend(userMessages, req[r].snapshot, r)
                       ELSE @,
                  !.req[r].pc = "saving",
                  !.req[r].rpc = outcome]
  /\ UNCHANGED notSessVars

\* Lines 389-400: the insert of the user message resolves.
SaveUserMessage(r) ==
  /\ req[r].pc = "saving"
  /\ \E outcome \in {"ok", "error"} :
       sess' = [sess EXCEPT
                  !.userTurns = IF outcome = "ok" /\ req[r].session = "s1"
                                  THEN Append(@, r) ELSE @,
                  !.req[r].pc = "loaded"]
  /\ UNCHANGED notSessVars

\* Lines 402-572: retrieval and the loop of the turn run, with or without
\* text in fullResponse at their end; an exception goes to the catch of
\* line 609, else the answer is stored when ShouldPersist.  The answer of
\* request r, when not empty, is <<r>>.
TurnEnds(r) ==
  /\ req[r].pc = "loaded"
  /\ \E answer \in {<<>>, <<r>>}, threw \in BOOLEAN :
       sess' = [sess EXCEPT
                  !.req[r].full = answer # <<>>,
                  !.req[r].pc =
                     IF threw THEN "failed"
                     ELSE IF ShouldPersist(answer, req[r].skip)
                       THEN "inserting"
                     ELSE "closed"]
  /\ UNCHANGED notSessVars

\* Lines 574-594: the insert of the assistant message settles; a rejection
\* goes to the catch; else updated_at is written when there is a session.
AssistantInsertReturns(r) ==
  /\ req[r].pc = "inserting"
  /\ \E outcome \in {"ok", "error", "threw"} :
       sess' = [sess EXCEPT
                  !.assistantRows = IF outcome = "ok" THEN @ \cup {r} ELSE @,
                  !.req[r].pc = IF outcome = "threw" THEN "failed"
                                ELSE IF req[r].session # NoSession
                                  THEN "touching"
                                ELSE "closed"]
  /\ UNCHANGED notSessVars

\* Lines 588-604: the update of updated_at settles; a rejection goes to the
\* catch; else the re-embed request is sent.
TouchReturns(r) ==
  /\ req[r].pc = "touching"
  /\ \E outcome \in {"ok", "error", "threw"} :
       sess' = [sess EXCEPT
                  !.touched = IF outcome = "ok" THEN @ \cup {r} ELSE @,
                  !.reembeds = IF outcome = "threw" THEN @ ELSE @ \cup {r},
                  !.req[r].pc = IF outcome = "threw" THEN "failed"
                                ELSE "embedding"]
  /\ UNCHANGED notSessVars

\* Lines 598-615: the re-embed request settles, whatever its outcome; the
\* `done` frame is sent and the stream closed.
ReembedSettles(r) ==
  /\ req[r].pc = "embedding"
  /\ sess' = [sess EXCEPT !.req[r].pc = "closed"]
  /\ UNCHANGED notSessVars

SessionInit == ChatIdle /\ SessIdle /\ EncIdle /\ RetIdle /\ RankIdle
  /\ ItemIdle /\ DriveIdle /\ RoundIdle /\ VecIdle

SessionNext ==
  \/ \E r \in Requests : Receive(r)
  \/ \E r \in Requests : CreateSessionReturns(r)
  \/ \E r \in Requests : AppendReturns(r)
  \/ \E r \in Requests : SaveUserMessage(r)

SessionSpec == SessionInit /\ [][SessionNext]_vars

\* The requests followed from their arrival to the end of their turn.
TurnStorageNext ==
  \/ \E r \in TurnRequests : Receive(r)
  \/ \E r \in TurnRequests : CreateSessionReturns(r)
  \/ \E r \in TurnRequests : AppendReturns(r)
  \/ \E r \in TurnRequests : SaveUserMessage(r)
  \/ \E r \in TurnRequests : TurnEnds(r)
  \/ \E r \in TurnRequests : AssistantInsertReturns(r)
  \/ \E r \in TurnRequests : TouchReturns(r)
  \/ \E r \in TurnRequests : ReembedSettles(r)

TurnStorageSpec == SessionInit /\ [][TurnStorageNext]_vars

----
\* The Vector Encoder: lib/embeddings.ts

\* How the provider can answer one request.
ProviderOutcomes == {"ok", "not_ok", "rejects", "malformed"}

\* The orders in which the provider can list the results of a request.
Orders == {"asc", "desc", "rot"}

\* The position of the input listed p-th among m, for each order.
Listed(order, m, p) ==
  CASE order = "asc" -> p
    [] order = "desc" -> m + 1 - p
    [] OTHER -> (p % m) + 1

\* The `data` array of an OK response to `inputs`: one entry per input with
\* its zero-based index, listed in `order`.
ProviderData(inputs, inputType, order) ==
  [p \in 1..Len(inputs) |->
     [embedding |-> ProviderVector(inputs[Listed(order, Len(inputs), p)],
                                   inputType),
      index |-> Listed(order, Len(inputs), p) - 1]]

Unsorted(data) == data

\* embeddings.ts 65: data.sort((a, b) => a.index - b.index), a stable sort.
SortByIndex(data) ==
  LET m == Len(data)
      pos == [j \in 1..m |->
                1 + Cardinality({i \in 1..m :
                                   \/ data[i].index < data[j].index
                                   \/ data[i].index = data[j].index /\ i < j})]
  IN [k \in 1..m |-> data[CHOOSE j \in 1..m : pos[j] = k]]

Nulls(inputs) == [p \in 1..Len(inputs) |-> Absent]

\* embeddings.ts 37-67, callMultimodalAPI: nulls without a key and for a
\* response that is not OK; nothing catches a rejected fetch, a rejected
\* response.json() or a body whose `data` is not an array.
callMultimodalAPI(inputs, inputType, key, outcome, order) ==
  IF ~key THEN [threw |-> FALSE, value |-> Nulls(inputs)]
  ELSE CASE outcome = "rejects" -> [threw |-> TRUE, value |-> <<>>]
         [] outcome = "not_ok" -> [threw |-> FALSE, value |-> Nulls(inputs)]
         [] outcome = "malformed" -> [threw |-> TRUE, value |-> <<>>]
         [] OTHER ->
              LET data == SortByIndex(ProviderData(inputs, inputType, order))
              IN [threw |-> FALSE,
                  value |-> [p \in 1..Len(data) |-> Present(data[p].embedding)]]

\* The text of input i of a call is i.
InputTexts(from, to) == [p \in 1..(to - from + 1) |-> from + p - 1]

Min(a, b) == IF a < b THEN a ELSE b

\* embeddings.ts 72-79, 105-112, 137-143: an exported function is called.
\* generateEmbeddings returns nulls at once without a key and [] for no item.
EncoderCalled ==
  /\ encState = "idle"
  /\ \E key \in BOOLEAN,
        call \in ([fn : {"generateEmbedding", "generateQueryEmbedding"}, n : {1}]
                  \cup [fn : {"generateEmbeddings"}, n : 0..(BatchSize + MaxOver)]) :
       enc' = IF call.fn = "generateEmbeddings" /\ (~key \/ call.n = 0)
                THEN [enc EXCEPT !.apiKey = key, !.encCall = call,
                                 !.encState = "returned",
                                 !.encReturn = Nulls(InputTexts(1, call.n))]
                ELSE [enc EXCEPT !.apiKey = key, !.encCall = call,
                                 !.encState = "running"]
  /\ UNCHANGED notEncVars

\* embeddings.ts 72-79, 137-143: the request of a single-input function
\* settles; results[0] is returned.
SingleSettles ==
  /\ encState = "running"
  /\ encCall.fn \in {"generateEmbedding", "generateQueryEmbedding"}
  /\ \E outcome \in ProviderOutcomes, order \in Orders :
       LET res == callMultimodalAPI(
                    InputTexts(1, 1),
                    IF encCall.fn = "generateQueryEmbedding" THEN "query"
                    ELSE "document",
                    apiKey, outcome, order)
       IN enc' = [enc EXCEPT
                    !.encOrders = Append(@, IF outcome = "ok" THEN order
                                            ELSE outcome),
                    !.encState = IF res.threw THEN "threw" ELSE "returned",
                    !.encReturn = IF res.threw THEN @ ELSE res.value[1]]
  /\ UNCHANGED notEncVars

\* embeddings.ts 114-130: the request of one batch settles; its results are
\* pushed to allResults and the loop goes on or the list is returned.
BatchSettles ==
  /\ encState = "running"
  /\ encCall.fn = "generateEmbeddings"
  /\ \E outcome \in ProviderOutcomes, order \in Orders :
       LET batch == InputTexts(encOffset + 1,
                               Min(encOffset + BatchSize, encCall.n))
           res == callMultimodalAPI(batch, "document", apiKey, outcome, order)
           collected == allResults \o res.value
           answered == Append(encOrders,
                              IF outcome = "ok" THEN order ELSE outcome)
       IN enc' = IF res.threw
                   THEN [enc EXCEPT !.encOrders = answered,
                                    !.encState = "threw"]
                   ELSE IF encOffset + BatchSize < encCall.n
                     THEN [enc EXCEPT !.encOrders = answered,
                                      !.allResults = collected,
                                      !.encOffset = @ + BatchSize]
                     ELSE [enc EXCEPT !.encOrders = answered,
                                      !.allResults = collected,
                                      !.encOffset = @ + BatchSize,
                                      !.encState = "returned",
                                      !.encReturn = collected]
  /\ UNCHANGED notEncVars

EncoderInit == ChatIdle /\ SessIdle /\ EncIdle /\ RetIdle /\ RankIdle
  /\ ItemIdle /\ DriveIdle /\ RoundIdle /\ VecIdle

EncoderNext == EncoderCalled \/ SingleSettles \/ BatchSettles

EncoderSpec == EncoderInit /\ [][EncoderNext]_vars

----
\* Automatic retrieval: retrieveContext and its call in POST /api/chat

\* How the rows of a workspace have been updated since their creation: never,
\* in reverse order of creation, or only the oldest row.
UpdatePatterns == {"never", "reversed", "oldest"}

\* n rows created at times 1..n; updated_at is never before created_at.
UpdatedAt(pattern, n, c) ==
  CASE pattern = "never" -> c
    [] pattern = "reversed" -> 2 * n + 1 - c
    [] OTHER -> IF c = 1 THEN n + 1 ELSE c

Workspace(n, pattern) ==
  {[id |-> c, created_at |-> c, updated_at |-> UpdatedAt(pattern, n, c)] :
     c \in 1..n}

FallbackOrderKeyUpdated(row) == row.updated_at

\* route.ts 239, 307: .order('created_at', { ascending: false }).
FallbackOrderKey(row) == row.created_at

\* route.ts 235-240, 303-308: the rows of the workspace, newest first by the
\* order key, at most FallbackLimit of them; the entries of the text are the
\* rows in that order (lines 243-249).
RecentItems(rows) ==
  LET ordered == [k \in 1..Cardinality(rows) |->
                    CHOOSE x \in rows :
                      Cardinality({y \in rows :
                                     FallbackOrderKey(y) > FallbackOrderKey(x)})
                        = k - 1]
  IN [k \in 1..Min(FallbackLimit, Cardinality(rows)) |-> ordered[k].id]

\* route.ts 241-255: the value returned when the query has no embedding.
RecentContext(data) ==
  IF data = <<>> THEN NoContext
  ELSE [label |-> "recent", entries |-> data, sessions |-> FALSE,
        items |-> <<>>]

\* route.ts 310-330: the value returned when the vector search failed or
\* matched nothing.
RecentAfterSearch(recent, sessions) ==
  IF recent = <<>>
    THEN [label |-> "none", entries |-> <<>>, sessions |-> sessions,
          items |-> <<>>]
    ELSE [label |-> "recent", entries |-> recent, sessions |-> sessions,
          items |-> <<>>]

\* Row k of the result of match_spark_items: the k-th nearest row, its
\* similarity in percent and its text.
MatchedRow(k) == [id |-> k, similarity |-> 100 - k, content |-> k]

\* route.ts 325-331: the ranked item made of a matched row.
ContextItem(row) == [id |-> row.id, similarity |-> row.similarity]

ContextFramesUnconditional(context) ==
  <<[type |-> "context", items |-> context.items]>>

\* route.ts 437-439: the `context` frame, sent when there are ranked items.
ContextFrames(context) ==
  IF Len(context.items) > 0
    THEN <<[type |-> "context", items |-> context.items]>>
    ELSE <<>>

\* route.ts 425: POST calls retrieveContext, which calls
\* generateQueryEmbedding (line 230).
RetrieveCalled ==
  /\ retPc = "idle"
  /\ ret' = [ret EXCEPT !.retPc = "encoding"]
  /\ UNCHANGED notRetVars

\* route.ts 230-233: the encoder call settles. Nothing in retrieveContext or
\* around line 425 catches: when it throws, POST rejects and the request
\* fails.
QueryEncoded ==
  /\ retPc = "encoding"
  /\ \E key \in BOOLEAN, outcome \in ProviderOutcomes, order \in Orders :
       LET res == callMultimodalAPI(<<0>>, "query", key, outcome, order)
           how == IF ~key THEN "no_key" ELSE outcome
       IN ret' = IF res.threw
                   THEN [ret EXCEPT !.retEncoder = how, !.retPc = "threw",
                                    !.httpResponse = "failed"]
                   ELSE [ret EXCEPT
                           !.retEncoder = how,
                           !.queryEmbedding = res.value[1],
                           !.retPc = IF res.value[1] = Absent THEN "recent"
                                     ELSE "match"]
  /\ UNCHANGED notRetVars

\* route.ts 233-256, 427-435: the recent-items query settles (its error is
\* not read: data is null), retrieveContext returns and POST starts the
\* stream.
RecentReturns ==
  /\ retPc = "recent"
  /\ \E ok \in BOOLEAN :
       ret' = [ret EXCEPT
                 !.retStorage = IF ok THEN "ok" ELSE "error",
                 !.ragContext = RecentContext(IF ok THEN RecentItems(sparkItems)
                                              ELSE <<>>),
                 !.retPc = "returned",
                 !.httpResponse = "stream"]
  /\ UNCHANGED notRetVars

\* route.ts 258-345: both searches settle. The rows matched are the m rows
\* nearest to the query; with rows, the context is labelled relevant and
\* the rows are the ranked items; with an error or no row, the recent-items
\* query runs (lines 301-308).
MatchReturns ==
  /\ retPc = "match"
  /\ \E error \in BOOLEAN, m \in 0..Cardinality(sparkItems),
        sessions \in BOOLEAN :
       ret' = IF error \/ m = 0
                THEN [ret EXCEPT
                        !.retPc = "recent_after_search",
                        !.ragContext = [NoContext EXCEPT !.sessions = sessions]]
                ELSE [ret EXCEPT
                        !.retPc = "returned",
                        !.ragContext = [label |-> "relevant",
                                        entries |-> [k \in 1..m |-> k],
                                        sessions |-> sessions,
                                        items |-> [k \in 1..m |->
                                                     ContextItem(MatchedRow(k))]],
                        !.httpResponse = "stream"]
  /\ UNCHANGED notRetVars

\* route.ts 301-330, 427-435: the recent-items query after a failed or
\* empty search settles, retrieveContext returns and POST starts the stream.
RecentAfterSearchReturns ==
  /\ retPc = "recent_after_search"
  /\ \E ok \in BOOLEAN :
       ret' = [ret EXCEPT
                 !.retStorage = IF ok THEN "ok" ELSE "error",
                 !.ragContext = RecentAfterSearch(
                                  IF ok THEN RecentItems(sparkItems) ELSE <<>>,
                                  ragContext.sessions),
                 !.retPc = "returned",
                 !.httpResponse = "stream"]
  /\ UNCHANGED notRetVars

\* route.ts 430-474: start() runs: it sends the `context` frame, builds the
\* messages and makes the first model request.
ContextSent ==
  /\ retPc = "returned"
  /\ ret' = [ret EXCEPT !.sentAtStart = ContextFrames(ragContext),
                        !.retPc = "create"]
  /\ UNCHANGED notRetVars

RetrieveInit ==
  /\ ChatIdle /\ SessIdle /\ EncIdle /\ RankIdle /\ ItemIdle /\ DriveIdle /\ RoundIdle /\ VecIdle
  /\ \E n \in 0..MaxRows, pattern \in UpdatePatterns :
       RetStart(Workspace(n, pattern))

RetrieveNext ==
  \/ RetrieveCalled
  \/ QueryEncoded
  \/ RecentReturns
  \/ MatchReturns
  \/ RecentAfterSearchReturns
  \/ ContextSent

RetrieveSpec == RetrieveInit /\ [][RetrieveNext]_vars

----
\* The hybrid search: hybrid_search_spark_items

Items == 1..MaxItems

\* The rankings of some rows of S, no row twice.
Rankings(S) ==
  {r \in UNION {[1..k -> S] : k \in 0..Cardinality(S)} :
     \A i, j \in DOMAIN r : i # j => r[i] # r[j]}

\* 003_multimodal_embeddings.sql 63-66: the values a caller passes.
MatchCounts == {1, 2, DefaultMatchCount}
WeightPairs == {<<1, 1>>, <<0, 1>>, <<1, 0>>, <<2, 1>>, <<1, 2>>}
RrfKs == {0, DefaultRrfK}

Sum(a, b) == Frac(a.num * b.den + b.num * a.den, a.den * b.den)

Times(a, w) == Frac(a.num * w, a.den)

AtLeast(a, b) == a.num * b.den >= b.num * a.den

\* 003_multimodal_embeddings.sql 81-103: the rows of a source ranking with
\* their row_number, the first least(match_count, 30) * 2 of them.
SourceRows(ranking, match_count) ==
  {[id |-> ranking[k], rank_ix |-> k] :
     k \in 1..Min(Len(ranking), Min(match_count, SourceCap) * 2)}

\* The rank_ix of row c in a source, null when the source has no row for c.
RankIx(rows, c) ==
  IF \E r \in rows : r.id = c
    THEN Present((CHOOSE r \in rows : r.id = c).rank_ix)
    ELSE Absent

RankOverK(rrf_k, rank_ix) ==
  IF rank_ix = Absent THEN Frac(0, 1) ELSE Frac(rank_ix[1], rrf_k + 1)

\* 003_multimodal_embeddings.sql 111-112:
\* coalesce(1.0 / (rrf_k + rank_ix), 0.0).
Reciprocal(rrf_k, rank_ix) ==
  IF rank_ix = Absent THEN Frac(0, 1) ELSE Frac(1, rrf_k + rank_ix[1])

\* 003_multimodal_embeddings.sql 111-112: the score of a joined row.
Score(ft_rank, sem_rank, params) ==
  Sum(Times(Reciprocal(params.rrf_k, ft_rank), params.full_text_weight),
      Times(Reciprocal(params.rrf_k, sem_rank), params.semantic_weight))

InnerJoin(ft, sem) == {r.id : r \in ft} \cap {r.id : r \in sem}

\* 003_multimodal_embeddings.sql 113-115: full_text full outer join
\* semantic, joined to spark_items: one row per id of either source.
FullOuterJoin(ft, sem) == {r.id : r \in ft} \cup {r.id : r \in sem}

\* The score the search gives row c for the given rankings.
FusedScore(lexical, semantic, params, c) ==
  Score(RankIx(SourceRows(lexical, params.match_count), c),
        RankIx(SourceRows(semantic, params.match_count), c),
        params)

\* 003_multimodal_embeddings.sql 105-117: the results the search can return:
\* of the joined rows by score, highest first, the first match_count; which
\* of the rows of equal score come first is not determined.
SearchResults(lexical, semantic, params) ==
  LET ft == SourceRows(lexical, params.match_count)
      sem == SourceRows(semantic, params.match_count)
      joined == FullOuterJoin(ft, sem)
      score(c) == Score(RankIx(ft, c), RankIx(sem, c), params)
      n == Min(params.match_count, Cardinality(joined))
  IN {{[id |-> c, score |-> score(c)] : c \in kept} :
        kept \in {ids \in SUBSET joined :
                    /\ Cardinality(ids) = n
                    /\ \A c \in ids, d \in joined \ ids :
                         AtLeast(score(c), score(d))}}

\* The position of row c in a ranking, 0 when it is not ranked.
Position(ranking, c) ==
  IF \E k \in DOMAIN ranking : ranking[k] = c
    THEN CHOOSE k \in DOMAIN ranking : ranking[k] = c
    ELSE 0

\* The ranking with row c at position p and the other rows in their order.
MoveTo(ranking, c, p) ==
  LET others == SelectSeq(ranking, LAMBDA x : x # c)
  IN SubSeq(others, 1, p - 1) \o <<c>> \o SubSeq(others, p, Len(others))

\* 003_multimodal_embeddings.sql 59-118: a search runs on the rankings as
\* they are.
HybridSearch ==
  /\ rankPc \in {"idle", "promoted"}
  /\ \E rows \in SearchResults(fullTextRanking, semanticRanking,
                                searchParams) :
       rank' = [rank EXCEPT
                  !.fused = rows,
                  !.rankPc = IF rankPc = "idle" THEN "searched"
                             ELSE "researched"]
  /\ UNCHANGED notRankVars

\* Between two searches with the same parameters the data or the query
\* changes so that row c is ranked nearer to 1 in one source (or enters it)
\* and keeps its rank in the other.
Promote ==
  /\ rankPc = "searched"
  /\ \E c \in Items, source \in {"full_text", "semantic"} :
       LET ranking == IF source = "full_text" THEN fullTextRanking
                      ELSE semanticRanking
           at == Position(ranking, c)
           was == FusedScore(fullTextRanking, semanticRanking, searchParams, c)
       IN \E p \in 1..(IF at = 0 THEN Len(ranking) + 1 ELSE at - 1) :
            rank' = IF source = "full_text"
                      THEN [rank EXCEPT
                              !.fullTextRanking = MoveTo(ranking, c, p),
                              !.promotion = [id |-> c, was |-> was],
                              !.rankPc = "promoted"]
                      ELSE [rank EXCEPT
                              !.semanticRanking = MoveTo(ranking, c, p),
                              !.promotion = [id |-> c, was |-> was],
                              !.rankPc = "promoted"]
  /\ UNCHANGED notRankVars

\* The rows with an embedding are 1..e, nearest first; any rows match the
\* text, in any order.
RankInit ==
  /\ ChatIdle /\ SessIdle /\ EncIdle /\ RetIdle /\ ItemIdle /\ DriveIdle /\ RoundIdle /\ VecIdle
  /\ \E lexical \in Rankings(Items), e \in 0..MaxItems,
        match_count \in MatchCounts, weights \in WeightPairs,
        rrf_k \in RrfKs :
       RankStart(lexical, [k \in 1..e |-> k],
                 [match_count |-> match_count,
                  full_text_weight |-> weights[1],
                  semantic_weight |-> weights[2], rrf_k |-> rrf_k])

RankNext == HybridSearch \/ Promote

RankSpec == RankInit /\ [][RankNext]_vars

----
\* One item: POST /api/items, PATCH /api/items/[id] and their background
\* indexing

\* The text and the summary a successful scrape gives.
ScrapedText == -1
ScrapedSummary == -2

\* embeddings.ts 148-171, buildItemText: the parts of the text, a part left
\* out when its field is empty.
Part(value) == IF value = 0 THEN Absent ELSE Present(value)

buildItemText(itemData) ==
  [type |-> itemData.type,
   title |-> Present(itemData.title),
   content |-> Part(itemData.content),
   summary |-> Part(itemData.summary),
   tags |-> Part(itemData.metadata.tags),
   url |-> Part(itemData.metadata.url)]

\* The bodies a client sends with PATCH r: a new title, new tags or an
\* emptied body.
PatchBodies(r) ==
  {[field |-> "title", value |-> r + 1],
   [field |-> "metadata", value |-> r + 1],
   [field |-> "content", value |-> 0]}

\* items/[id]/route.ts 38-43: .update(body) and the row it returns.
ApplyBody(row, body) ==
  CASE body.field = "title" -> [row EXCEPT !.title = body.value]
    [] body.field = "summary" -> [row EXCEPT !.summary = body.value]
    [] body.field = "content" -> [row EXCEPT !.content = body.value]
    [] OTHER -> [row EXCEPT !.metadata.tags = body.value]

\* items/[id]/route.ts 50:
\* if (body.title || body.content || body.summary || body.metadata).
ReembedNeeded(body) == body.field = "metadata" \/ body.value # 0

\* items/route.ts 24-37: the row POST inserts: title and content of the
\* request, the content of a link being its URL.
InsertedRow(type) ==
  [type |-> type, title |-> 1, content |-> 1, summary |-> 0,
   metadata |-> [tags |-> 0, url |-> IF type = "link" THEN 1 ELSE 0],
   embedding |-> Absent]

OnBackgroundOutcomeAwaited(response, outcome) ==
  IF outcome = "throws" THEN "500" ELSE response

\* items/route.ts 45-77, items/[id]/route.ts 62-81: the promise of the
\* background work is not awaited and ends in .catch: whatever its outcome,
\* the response stays what the handler returned.
OnBackgroundOutcome(response, outcome) == response

\* A client sends POST, or PATCH once it knows the item from the response
\* of POST; PATCH r + 1 is sent after PATCH r.
ItemRequest(r) ==
  /\ op[r].pc = "idle"
  /\ IF r = 0 THEN TRUE
     ELSE /\ op[0].response = "201"
          /\ r > 1 => op[r - 1].pc # "idle"
  /\ \E body \in IF r = 0
                   THEN {[field |-> "link", value |-> 1],
                         [field |-> "note", value |-> 1]}
                   ELSE PatchBodies(r) :
       itm' = [itm EXCEPT !.op[r].pc = "db", !.op[r].body = body]
  /\ UNCHANGED notItemVars

\* items/route.ts 28-77: the insert returns; with an error the response is
\* 500; else the background work starts (scrapeAndEnrich for a link, the
\* encoder call for the rest) and the response is 201 with the row.
InsertReturnsItem ==
  /\ op[0].pc = "db"
  /\ \E ok \in BOOLEAN :
       itm' = IF ~ok
                THEN [itm EXCEPT !.op[0].pc = "done",
                                 !.op[0].response = "500",
                                 !.op[0].body = NoBody,
                                 !.op[0].outcome = "not_started"]
                ELSE [itm EXCEPT
                        !.item = InsertedRow(op[0].body.field),
                        !.op[0].pc = IF op[0].body.field = "link"
                                       THEN "scraping" ELSE "encoding",
                        !.op[0].body = NoBody,
                        !.op[0].text = IF op[0].body.field = "link" THEN NoText
                                       ELSE buildItemText(
                                              InsertedRow(op[0].body.field)),
                        !.op[0].response = "201"]
  /\ UNCHANGED notItemVars

\* items/[id]/route.ts 38-82: the update returns; with an error the response
\* is 500; else the encoder call starts on the text of the returned row when
\* the body has a non-empty field, and the response is 200 with the row.
UpdateReturnsItem(r) ==
  /\ r # 0
  /\ op[r].pc = "db"
  /\ \E ok \in BOOLEAN :
       LET data == ApplyBody(item, op[r].body)
           reembed == ReembedNeeded(op[r].body)
       IN itm' = IF ~ok
                   THEN [itm EXCEPT !.op[r].pc = "done",
                                    !.op[r].response = "500",
                                    !.op[r].body = NoBody,
                                    !.op[r].outcome = "not_started"]
                   ELSE [itm EXCEPT
                           !.item = data,
                           !.op[r].pc = IF reembed THEN "encoding" ELSE "done",
                           !.op[r].body = NoBody,
                           !.op[r].text = IF reembed THEN buildItemText(data)
                                          ELSE NoText,
                           !.op[r].outcome = IF reembed THEN "none"
                                             ELSE "not_started",
                           !.op[r].response = "200"]
  /\ UNCHANGED notItemVars

\* items/[id]/route.ts 204-242, 264-277: scrapePage settles; the fields to
\* write and the text to embed are built from the scrape and from the title
\* and metadata the item was created with.
ScrapeSettles ==
  /\ op[0].pc = "scraping"
  /\ \E result \in BOOLEAN :
       LET created == InsertedRow("link")
       IN itm' = [itm EXCEPT
                    !.op[0].pc = "enriching",
                    !.op[0].body = [field |-> IF result THEN "scrape_success"
                                              ELSE "scrape_failed",
                                    value |-> 1],
                    !.op[0].text = IF result
                      THEN buildItemText([created EXCEPT
                                            !.content = ScrapedText,
                                            !.summary = ScrapedSummary])
                      ELSE buildItemText(created),
                    !.op[0].response = OnBackgroundOutcome(op[0].response,
                                                           "scraped")]
  /\ UNCHANGED notItemVars

\* items/[id]/route.ts 223-234, 271-274: the update with the scraped fields
\* settles (an error is logged), then the encoder is called.
EnrichWritten ==
  /\ op[0].pc = "enriching"
  /\ \E ok \in BOOLEAN :
       itm' = [itm EXCEPT
                 !.item = IF ~ok THEN @
                          ELSE IF op[0].body.field = "scrape_success"
                            THEN [@ EXCEPT
                                    !.content = ScrapedText,
                                    !.summary = ScrapedSummary,
                                    !.metadata = InsertedRow("link").metadata]
                            ELSE [@ EXCEPT
                                    !.metadata = InsertedRow("link").metadata],
                 !.op[0].pc = "encoding",
                 !.op[0].body = NoBody]
  /\ UNCHANGED notItemVars

\* items/route.ts 58-75, items/[id]/route.ts 62-80, 248-258: the encoder
\* call of request r settles: with a vector the embedding update is sent,
\* with null nothing is written, an exception is caught and logged.
EncoderSettlesItem(r) ==
  /\ op[r].pc = "encoding"
  /\ \E key \in BOOLEAN, provider \in ProviderOutcomes :
       LET res == callMultimodalAPI(<<op[r].text>>, "document", key,
                                    provider, "asc")
           outcome == IF res.threw THEN "throws"
                      ELSE IF res.value[1] = Absent THEN "null"
                      ELSE "vector"
       IN itm' = [itm EXCEPT
                    !.op[r].pc = IF outcome = "vector" THEN "writing"
                                 ELSE "done",
                    !.op[r].text = IF outcome = "vector" THEN @ ELSE NoText,
                    !.op[r].outcome = outcome,
                    !.op[r].response = OnBackgroundOutcome(op[r].response,
                                                           outcome)]
  /\ UNCHANGED notItemVars

\* items/route.ts 62-69, items/[id]/route.ts 65-72, 251-258: the embedding
\* update of request r settles; an error is logged.
EmbeddingWritten(r) ==
  /\ op[r].pc = "writing"
  /\ \E ok \in BOOLEAN :
       itm' = [itm EXCEPT
                 !.item.embedding = IF ok THEN Present(Encoding(op[r].text))
                                    ELSE @,
                 !.op[r].pc = "done",
                 !.op[r].text = NoText,
                 !.op[r].outcome = IF ok THEN "stored" ELSE "write_error",
                 !.op[r].response = OnBackgroundOutcome(
                                      op[r].response,
                                      IF ok THEN "stored" ELSE "write_error")]
  /\ UNCHANGED notItemVars

ItemInit ==
  /\ ChatIdle /\ SessIdle /\ EncIdle /\ RetIdle /\ RankIdle
  /\ ItemIdle /\ DriveIdle /\ RoundIdle /\ VecIdle

ItemNext ==
  \/ \E r \in Ops : ItemRequest(r)
  \/ InsertReturnsItem
  \/ \E r \in Ops : UpdateReturnsItem(r)
  \/ ScrapeSettles
  \/ EnrichWritten
  \/ \E r \in Ops : EncoderSettlesItem(r)
  \/ \E r \in Ops : EmbeddingWritten(r)

ItemSpec == ItemInit /\ [][ItemNext]_vars

----
\* One Drive item: exportDriveAndEnrich, started by POST /api/items
\* A string of a Drive file is modelled by its length, '' being 0.

\* The lengths of the placeholders of exportFileContent for a PDF.
PdfTooLarge == 48
PdfNoText == 32

\* s.slice(0, n) of a string of length s.
Slice(s, n) == IF s < n THEN s ELSE n

\* The kinds of drive_mime_type: a key of EXPORT_MAP, a downloadable text
\* type other than PDF, application/pdf, anything else.
MimeKinds == {"workspace", "text", "pdf", "other"}

\* What a request to Drive can do: reject, answer with a status that is
\* not OK, or answer OK with a body of `length` bytes of which `readable`
\* are left by the filter applied to a PDF.
DriveLengths == 0..MaxDriveText \cup {MAX_EXPORT_BYTES + 1}

DriveResponses ==
  {[threw |-> TRUE, ok |-> FALSE, length |-> 0, readable |-> 0],
   [threw |-> FALSE, ok |-> FALSE, length |-> 0, readable |-> 0]}
  \cup {[threw |-> FALSE, ok |-> TRUE, length |-> n, readable |-> 0] :
          n \in DriveLengths}
  \cup {[threw |-> FALSE, ok |-> TRUE, length |-> n, readable |-> n] :
          n \in DriveLengths}

\* No request is sent.
NoResponse == [threw |-> FALSE, ok |-> FALSE, length |-> -1, readable |-> 0]

\* lib/google/drive.ts, exportFileContent: null for a type that is neither
\* exported nor downloaded and for a response that is not OK, the body cut
\* to MAX_EXPORT_BYTES otherwise; nothing catches a rejected fetch.
exportFileContent(mimeType, res) ==
  IF mimeType = "other" THEN [threw |-> FALSE, value |-> Absent]
  ELSE IF res.threw THEN [threw |-> TRUE, value |-> Absent]
  ELSE IF ~res.ok THEN [threw |-> FALSE, value |-> Absent]
  ELSE IF mimeType = "pdf"
    THEN IF res.length > MAX_EXPORT_BYTES
           THEN [threw |-> FALSE, value |-> Present(PdfTooLarge)]
           ELSE [threw |-> FALSE,
                 value |-> Present(
                   IF Slice(res.readable, MAX_EXPORT_BYTES) # 0
                     THEN Slice(res.readable, MAX_EXPORT_BYTES)
                     ELSE PdfNoText)]
  ELSE [threw |-> FALSE,
        value |-> Present(Slice(res.length, MAX_EXPORT_BYTES))]

\* items/[id]/route.ts 133-143: the row POST inserts for a Drive file; the
\* request gives a title and may give a content.
InsertedDriveRow(content) ==
  [type |-> "google_drive", title |-> 1, content |-> content, summary |-> 0,
   metadata |-> [tags |-> 0, url |-> 0, drive_export_status |-> "none"],
   embedding |-> Absent]

\* generateEmbedding(title): the title alone, without the type tag.
TitleOnly(title) == [NoText EXCEPT !.title = Present(title)]

\* items/[id]/route.ts 321, 364: the status written after the export,
\* `exported` being the value of exportFileContent.
ExportStatus(exported) ==
  IF exported # Absent /\ exported[1] # 0 THEN "success"
  ELSE IF exported = Absent THEN "success"
  ELSE "failed"

\* .update(fields).eq('id', itemId) on the row: content and summary are
\* written when the update has them, the metadata always.
ApplyDriveWrite(row, fields) ==
  IF fields.content # 0
    THEN [row EXCEPT !.content = fields.content,
                     !.summary = fields.summary,
                     !.metadata.drive_export_status = fields.status]
    ELSE [row EXCEPT !.metadata.drive_export_status = fields.status]

\* items/[id]/route.ts 133-165: the insert of a google_drive item with a
\* drive_file_id returned a row; exportDriveAndEnrich starts.
DriveItemCreated ==
  /\ drivePc = "idle"
  /\ \E content \in {0, 1}, mimeType \in MimeKinds :
       drv' = [drv EXCEPT !.driveItem = InsertedDriveRow(content),
                          !.driveMimeType = mimeType,
                          !.drivePc = "token"]
  /\ UNCHANGED notDriveVars

\* items/[id]/route.ts 295-309, 319: getValidAccessToken settles; without a
\* token the status `failed` is to be written and the title to be encoded;
\* with one, exportFileContent is called.
TokenSettles ==
  /\ drivePc = "token"
  /\ \E accessToken \in BOOLEAN :
       drv' = IF ~accessToken
                THEN [drv EXCEPT
                        !.drivePc = "enriching",
                        !.driveFetch = "no_token",
                        !.driveWrite = [NoWrite EXCEPT !.status = "failed"],
                        !.driveText = TitleOnly(driveItem.title)]
                ELSE [drv EXCEPT !.drivePc = "exporting"]
  /\ UNCHANGED notDriveVars

\* items/[id]/route.ts 319-349, 360-373: exportFileContent settles. A
\* rejection ends exportDriveAndEnrich (lines 163-165 log it).
\* With a non-empty text the content, its first 300 characters as summary
\* and the status are to be written and the text of the item built from
\* them is to be encoded; else the status alone and the title.
ExportSettles ==
  /\ drivePc = "exporting"
  /\ \E res \in IF driveMimeType = "other" THEN {NoResponse}
                ELSE DriveResponses :
       LET exported == exportFileContent(driveMimeType, res)
           text == exported.value
           fetch == IF driveMimeType = "other" THEN "not_sent"
                    ELSE IF res.threw THEN "threw"
                    ELSE IF ~res.ok THEN "not_ok"
                    ELSE "ok"
           created == InsertedDriveRow(0)
       IN drv' =
            IF exported.threw
              THEN [drv EXCEPT !.drivePc = "rejected",
                               !.driveFetch = fetch,
                               !.driveOutcome = "not_started"]
            ELSE IF text # Absent /\ text[1] # 0
              THEN [drv EXCEPT
                      !.drivePc = "enriching",
                      !.driveFetch = fetch,
                      !.exportedText = text,
                      !.driveWrite = [content |-> text[1],
                                      summary |-> Slice(text[1], 300),
                                      status |-> ExportStatus(text)],
                      !.driveText = buildItemText(
                                      [created EXCEPT
                                         !.content = text[1],
                                         !.summary = Slice(text[1], 300)])]
            ELSE [drv EXCEPT
                    !.drivePc = "enriching",
                    !.driveFetch = fetch,
                    !.exportedText = text,
                    !.driveWrite = [NoWrite EXCEPT
                                      !.status = ExportStatus(text)],
                    !.driveText = TitleOnly(driveItem.title)]
  /\ UNCHANGED notDriveVars

\* items/[id]/route.ts 298-309, 329-349, 368-373: the update of the item
\* settles (its error is logged or ignored), then the encoder is called.
DriveWritten ==
  /\ drivePc = "enriching"
  /\ \E ok \in BOOLEAN :
       drv' = [drv EXCEPT
                 !.driveItem = IF ok THEN ApplyDriveWrite(@, driveWrite)
                               ELSE @,
                 !.driveWrite = NoWrite,
                 !.drivePc = "encoding"]
  /\ UNCHANGED notDriveVars

\* items/[id]/route.ts 309-310, 349-351, 373-374: generateEmbedding
\* settles: with a vector the embedding update is sent, with null nothing
\* is written, a rejection ends exportDriveAndEnrich.
DriveEncoderSettles ==
  /\ drivePc = "encoding"
  /\ \E key \in BOOLEAN, provider \in ProviderOutcomes :
       LET res == callMultimodalAPI(<<driveText>>, "document", key,
                                    provider, "asc")
           outcome == IF res.threw THEN "throws"
                      ELSE IF res.value[1] = Absent THEN "null"
                      ELSE "vector"
       IN drv' = [drv EXCEPT
                    !.drivePc = CASE outcome = "vector" -> "writing"
                                  [] outcome = "null" -> "done"
                                  [] OTHER -> "rejected",
                    !.driveText = IF outcome = "vector" THEN @ ELSE NoText,
                    !.driveOutcome = outcome]
  /\ UNCHANGED notDriveVars

\* items/[id]/route.ts 310-315, 351-359, 374-379: the embedding update
\* settles; its error is logged or ignored.
DriveEmbeddingWritten ==
  /\ drivePc = "writing"
  /\ \E ok \in BOOLEAN :
       drv' = [drv EXCEPT
                 !.driveItem.embedding =
                     IF ok THEN Present(Encoding(driveText)) ELSE @,
                 !.driveText = NoText,
                 !.drivePc = "done",
                 !.driveOutcome = IF ok THEN "stored" ELSE "write_error"]
  /\ UNCHANGED notDriveVars

DriveInit ==
  /\ ChatIdle /\ SessIdle /\ EncIdle /\ RetIdle /\ RankIdle
  /\ ItemIdle /\ DriveIdle /\ RoundIdle /\ VecIdle

DriveNext ==
  \/ DriveItemCreated
  \/ TokenSettles
  \/ ExportSettles
  \/ DriveWritten
  \/ DriveEncoderSettles
  \/ DriveEmbeddingWritten

DriveSpec == DriveInit /\ [][DriveNext]_vars

----
\* The vectors endpoint: GET /api/sparks/[id]/vectors

\* An embedding has Dim components; the components are whole numbers here.
Embeddings == [1..Dim -> {0, 1}]

\* The rows of a workspace: row k has id k, an embedding or none.
VecWorkspaces ==
  UNION { [1..n -> {Absent} \cup {Present(e) : e \in Embeddings}] :
            n \in 0..MaxVecRows }

RECURSIVE Dot(_, _, _)
Dot(a, b, i) == IF i = 0 THEN 0 ELSE Dot(a, b, i - 1) + a[i] * b[i]

\* Lines 241-250.  The value is num / sqrt(radicand), kept exact; it is 0
\* when a norm is 0.
cosineSim(a, b) ==
  LET dot == Dot(a, b, Len(a))
      normA == Dot(a, a, Len(a))
      normB == Dot(b, b, Len(a))
  IN IF normA * normB > 0 THEN [num |-> dot, radicand |-> normA * normB]
     ELSE [num |-> 0, radicand |-> 1]

OverThresholdOrEqual(sim) ==
  sim.num > 0 /\ 4 * sim.num * sim.num >= sim.radicand

\* Line 309: sim > 0.5.
OverThreshold(sim) ==
  sim.num > 0 /\ 4 * sim.num * sim.num > sim.radicand

\* Lines 259-264: the rows of the workspace that have an embedding, with
\* their ids, in the order of the query.
RECURSIVE Embedded(_, _)
Embedded(rows, k) ==
  IF k > Len(rows) THEN <<>>
  ELSE (IF rows[k] = Absent THEN <<>>
        ELSE <<[id |-> k, embedding |-> rows[k][1]]>>)
       \o Embedded(rows, k + 1)

\* Lines 306-313: the inner loop, j from `j` on.
RECURSIVE EdgesFrom(_, _, _)
EdgesFrom(embeddings, i, j) ==
  IF j > Len(embeddings) THEN <<>>
  ELSE LET sim == cosineSim(embeddings[i], embeddings[j])
       IN (IF OverThreshold(sim)
             THEN <<[from |-> i, to |-> j, similarity |-> sim]>>
             ELSE <<>>)
          \o EdgesFrom(embeddings, i, j + 1)

\* Lines 305-313: the outer loop, i from `i` on.
RECURSIVE Edges(_, _)
Edges(embeddings, i) ==
  IF i > Len(embeddings) THEN <<>>
  ELSE EdgesFrom(embeddings, i, i + 1) \o Edges(embeddings, i + 1)

\* Lines 266-315: the response to the result of the query.  The positions
\* of the items come from a projection that starts at random; the edges do
\* not read them.
VectorsResponse(error, data) ==
  IF error THEN [status |-> "500", items |-> <<>>, edges |-> <<>>]
  ELSE IF data = <<>> THEN [status |-> "200", items |-> <<>>, edges |-> <<>>]
  ELSE LET embeddings == [k \in 1..Len(data) |-> data[k].embedding]
       IN [status |-> "200",
           items |-> [k \in 1..Len(data) |-> [id |-> data[k].id]],
           edges |-> Edges(embeddings, 1)]

\* Lines 253-264: the request is received and the query is sent.
VectorsRequested ==
  /\ vecPc = "idle"
  /\ vec' = [vec EXCEPT !.vecPc = "query"]
  /\ UNCHANGED notVecVars

\* Lines 266-315: the query resolves and the response is built.
VectorsReturns ==
  /\ vecPc = "query"
  /\ \E error \in BOOLEAN :
       vec' = [vec EXCEPT
                 !.vecPc = "done",
                 !.vecResponse = VectorsResponse(error, Embedded(vecRows, 1))]
  /\ UNCHANGED notVecVars

VectorsInit ==
  /\ ChatIdle /\ SessIdle /\ EncIdle /\ RetIdle /\ RankIdle /\ ItemIdle /\ DriveIdle /\ RoundIdle
  /\ \E rows \in VecWorkspaces : VecStart(rows)

VectorsNext == VectorsRequested \/ VectorsReturns

VectorsSpec == VectorsInit /\ [][VectorsNext]_vars

----
\* One tool round: lines 492-524 and 547-568 of POST /api/chat, executeTool

\* Lines 28-75: the tools.
ToolNames == {"semantic_search", "keyword_search", "list_items",
              "get_spark_details"}

\* Workspace 1 is the one of the request (spark_id of the body, line 349);
\* workspace 2 is another one.  Each holds one item.
RequestSpark == 1
SparkIds == {1, 2}
SparkItemRows == {[table |-> "spark_items", id |-> w, spark_id |-> w] :
                    w \in SparkIds}
SparkRow(w) == [table |-> "sparks", id |-> w, spark_id |-> w]

\* Lines 459-464 and 494: the content of the `status` frame of a tool.
ToolLabel(name) ==
  CASE name = "semantic_search" -> "Searching your Spark..."
    [] name = "keyword_search" -> "Searching by keyword..."
    [] name = "list_items" -> "Loading items..."
    [] name = "get_spark_details" -> "Getting Spark details..."
    [] OTHER -> "Processing..."

\* Lines 138-202: the contents executeTool can resolve with, as the rows the
\* content is built from.  Every query filters on input.spark_id; a search
\* matches any of the rows of that workspace.
executeTool(name, input) ==
  LET inWorkspace == {row \in SparkItemRows : row.spark_id = input.spark_id}
  IN CASE name \in {"semantic_search", "keyword_search"} ->
            {[tool |-> name, rows |-> found] : found \in SUBSET inWorkspace}
       [] name = "list_items" ->
            {[tool |-> name, rows |-> found] : found \in {{}, inWorkspace}}
       [] OTHER ->
            {[tool |-> name, rows |-> {SparkRow(input.spark_id)}]}

\* The tool_use blocks a model response can hold: n blocks with distinct
\* ids, any tool and any spark_id as input.
ToolUseBlocks(n) ==
  { [k \in 1..n |-> [id |-> ids[k], name |-> names[k],
                     input |-> [spark_id |-> sparks[k]]]] :
      ids \in {[k \in 1..n |-> k], [k \in 1..n |-> n + 1 - k]},
      names \in [1..n -> ToolNames], sparks \in [1..n -> SparkIds] }

StartOneByOne(blocks) ==
  [k \in 1..Len(blocks) |-> IF k = 1 THEN "running" ELSE "pending"]

\* Lines 499-506: map() calls every async callback, which calls executeTool,
\* before Promise.all is awaited.
StartAll(blocks) == [k \in 1..Len(blocks) |-> "running"]

\* The content call k resolved with.
ContentOf(done, k) ==
  (CHOOSE e \in {done[j] : j \in 1..Len(done)} : e.position = k).content

ToolResultsByCompletion(blocks, done) ==
  [k \in 1..Len(blocks) |->
     [type |-> "tool_result", tool_use_id |-> blocks[k].id,
      content |-> done[k].content]]

\* Lines 498-507: the value of Promise.all, entry k made by callback k.
ToolResults(blocks, done) ==
  [k \in 1..Len(blocks) |->
     [type |-> "tool_result", tool_use_id |-> blocks[k].id,
      content |-> ContentOf(done, k)]]

\* Lines 476-507 (h = 1) and 534-566 (h = 2): a model response holds tool_use
\* blocks.  One `status` frame per block is sent, then every call is
\* started.  On a stream that is no longer readable the first send throws.
ToolsRequested ==
  /\ roundPc = "idle"
  /\ \E n \in 1..MaxCalls, h \in {1, 2}, open \in BOOLEAN :
       \E blocks \in ToolUseBlocks(n) :
         rnd' = IF open
                  THEN [rnd EXCEPT
                          !.calls = blocks,
                          !.half = h,
                          !.statuses = [k \in 1..n |-> ToolLabel(blocks[k].name)],
                          !.callState = StartAll(blocks),
                          !.roundPc = "tools"]
                  ELSE [rnd EXCEPT
                          !.calls = blocks,
                          !.half = h,
                          !.readable = FALSE,
                          !.callState = [k \in 1..n |-> "pending"],
                          !.roundPc = "aborted"]
  /\ UNCHANGED notRoundVars

\* Lines 498-524 and 557-569: a call resolves.  When it is the last one of
\* the round, Promise.all resolves and the results are appended to the
\* messages; in the first half the `status` frame of line 516 is sent and
\* the streamed request is made, in the second half the loop goes on to the
\* next request.  After a rejected round nothing awaits the call.
ToolCallResolves(k) ==
  /\ roundPc \in {"tools", "aborted"}
  /\ k \in DOMAIN callState
  /\ callState[k] = "running"
  /\ \E content \in executeTool(calls[k].name, calls[k].input) :
       LET done == Append(resolved, [position |-> k, id |-> calls[k].id,
                                    content |-> content])
           now == [callState EXCEPT ![k] = "done"]
           last == \A j \in DOMAIN now : now[j] = "done"
       IN rnd' = IF roundPc = "aborted" \/ ~last
                   THEN [rnd EXCEPT !.callState = now, !.resolved = done]
                   ELSE IF half = 1 /\ ~readable
                     THEN [rnd EXCEPT !.callState = now, !.resolved = done,
                                      !.toolResults =
                                         Present(ToolResults(calls, done)),
                                      !.roundPc = "aborted"]
                     ELSE [rnd EXCEPT
                             !.callState = now, !.resolved = done,
                             !.toolResults = Present(ToolResults(calls, done)),
                             !.statuses = IF half = 1
                                            THEN Append(@, "Generating response...")
                                            ELSE @,
                             !.roundPc = "requested"]
  /\ UNCHANGED notRoundVars

\* Lines 138-202: executeTool has no try/catch; a rejected encoder or storage
\* call rejects it, Promise.all rejects and the round is abandoned.
ToolCallRejects(k) ==
  /\ roundPc \in {"tools", "aborted"}
  /\ k \in DOMAIN callState
  /\ callState[k] = "running"
  /\ rnd' = [rnd EXCEPT !.callState[k] = "failed", !.roundPc = "aborted"]
  /\ UNCHANGED notRoundVars

\* The client disconnects while the calls are in flight.
ClientLeaves ==
  /\ roundPc = "tools"
  /\ readable
  /\ rnd' = [rnd EXCEPT !.readable = FALSE]
  /\ UNCHANGED notRoundVars

ToolRoundInit ==
  /\ ChatIdle /\ SessIdle /\ EncIdle /\ RetIdle /\ RankIdle /\ ItemIdle /\ DriveIdle
  /\ VecIdle /\ RoundIdle

ToolRoundNext ==
  \/ ToolsRequested
  \/ \E k \in 1..MaxCalls : ToolCallResolves(k)
  \/ \E k \in 1..MaxCalls : ToolCallRejects(k)
  \/ ClientLeaves

ToolRoundSpec == ToolRoundInit /\ [][ToolRoundNext]_vars

----
\* Claims

TokensOf(chunks) == { Concat(chunks)[k] : k \in 1..Len(Concat(chunks)) }

\* C1: when every model response requests a tool call and no call throws,
\* the turn terminates: the loop runs at most MaxTurns iterations and the
\* `done` frame is then emitted, exactly once.  (Checked under FairSpec:
\* every awaited call settles.)
C1_TurnTerminates ==
  /\ <>(pc = "closed")
  /\ [](turn <= MaxTurns)
  /\ [](pc = "closed" /\ allToolUse /\ abortCause = "none"
          => Len(FramesOf("done")) = 1 /\ lastFrame = "done")

C1_Witness ==
  /\ pc = "closed" /\ allToolUse /\ abortCause = "none"
  /\ turn = MaxTurns
  /\ Len(FramesOf("done")) = 1

\* C2: within one turn the number of model responses accepted as tool
\* rounds never exceeds 10.
C2_AtMostTenToolRounds == toolRounds <= MaxTurns

\* C3: on every exit path the last frame written is `done`; on the
\* exception path exactly one `error` frame is written, followed by `done`.
C3_DoneIsLastFrame ==
  pc = "closed" /\ streamState # "cancelled"
    => /\ lastFrame = "done"
       /\ (abortCause # "none" => Len(FramesOf("error")) = 1)

\* C4: while the client stays connected the controller is closed exactly
\* once on every exit path (not before the exit, once at the exit) and no
\* frame is enqueued after the close.
C4_ClosedExactlyOnce ==
  streamState # "cancelled"
    => /\ closeCalls = (IF pc = "closed" THEN 1 ELSE 0)
       /\ (streamState = "closed") = (pc = "closed")
       /\ closeErrors = 0
       /\ lateWrites = 0

C4_Witness ==
  /\ pc = "closed" /\ streamState = "closed" /\ closeCalls = 1
  /\ abortCause = "tool"
  /\ lastFrame = "error"

\* C5: after the client has disconnected no enqueue is attempted on the
\* closed channel, whatever the calls in flight return.
C5_NoWriteAfterDisconnect == lateWrites = 0

\* C6: a failing tool call never aborts the turn, and once the calls of a
\* round have settled the results of the successful ones are in `messages`.
C6_ToolFailureIsContained ==
  /\ abortCause # "tool"
  /\ ((\A i \in DOMAIN tools : tools[i] # "running")
        => ctxResults + Cardinality({i \in DOMAIN tools : tools[i] = "failed"})
             >= toolsStarted)

\* C7: when the tool-call budget is exhausted the text the model produced,
\* the text buffered in the last streamed round included, is emitted as
\* text frames.
C7_ExhaustionEmitsBufferedText ==
  pc = "closed" /\ turn = MaxTurns /\ streamState = "closed"
      /\ abortCause = "none" /\ Concat(textBuffer) # <<>>
    => EmittedText # <<>>

\* C8: every turn whose stream ends has emitted a `text` frame or an
\* `error` frame.
C8_NoAnswerIsReported ==
  pc = "closed" /\ streamState = "closed"
    => FramesOf("text") # <<>> \/ FramesOf("error") # <<>>

\* C9: text is emitted only from the terminal round: no token of a response
\* accepted as a tool round is in a text frame, in fullResponse or in the
\* persisted answer, and once a text frame has been emitted no tool call is
\* started and no `status` frame is emitted.
C9_TextOnlyFromTerminalRound ==
  /\ [](\A n \in TokensOf(Contents(FramesOf("text")))
              \cup TokensOf(<<fullResponse>>)
              \cup TokensOf(assistantTurns) : n > toolRounds)
  /\ [][FramesOf("text") # <<>>
          => statusCount' = statusCount /\ toolsStarted' = toolsStarted]_vars

C9_Witness ==
  /\ pc = "closed"
  /\ toolRounds >= 2
  /\ Len(FramesOf("text")) = 2
  /\ EmittedText # <<>>

\* C10 (as claimed): with persistence enabled at most one assistant Turn is
\* inserted, it is inserted iff the turn completed having produced text,
\* and its content is the concatenation of the text frames.
C10_InsertedIffCompletedWithText ==
  ~skip_persist
    => /\ Len(assistantTurns) <= 1
       /\ (assistantTurns # <<>> => assistantTurns[1] = EmittedText)
       /\ (pc = "closed"
             => (assistantTurns # <<>>
                   <=> lastFrame = "done" /\ fullResponse # <<>>))

\* C10 (amended): at most one assistant Turn is inserted; the insert is
\* issued iff persistence is enabled and the terminal round produced
\* non-empty text all of whose frames were written; the Turn exists iff
\* storage accepted the insert; its content is the non-empty concatenation
\* of the text frames; a turn that fails before producing text inserts none.
C10_AssistantTurnPersistence ==
  /\ Len(assistantTurns) <= 1
  /\ (assistantTurns # <<>> <=> insertOutcome = "ok")
  /\ (assistantTurns # <<>>
        => assistantTurns[1] = EmittedText /\ assistantTurns[1] # <<>>)
  /\ (insertOutcome # "none" => ~skip_persist)
  /\ (pc = "closed" /\ ~skip_persist
        => (insertOutcome # "none"
              <=> fullResponse # <<>> /\ EmittedText = fullResponse))
  /\ (FramesOf("text") = <<>> => assistantTurns = <<>>)

C10_Witness ==
  /\ pc = "closed"
  /\ Len(assistantTurns) = 1
  /\ Len(FramesOf("text")) = 2
  /\ toolRounds >= 1

Count(seq, x) == Cardinality({i \in DOMAIN seq : seq[i] = x})

\* C11: concurrent appends to the session S lose nothing: user_messages
\* holds the message of every request whose append was applied exactly once
\* (and no other message of a request), after every interleaving.
C11_NoLostUtterance ==
  /\ Count(userMessages, 0) = 1
  /\ \A r \in Requests :
       Count(userMessages, r) = (IF req[r].rpc = "ok" THEN 1 ELSE 0)

\* Two appends that started on the same version of the row were both applied.
C11_Witness ==
  /\ req[1].rpc = "ok" /\ req[2].rpc = "ok"
  /\ req[1].snapshot = req[2].snapshot
  /\ Len(userMessages) >= 3

\* C12: after a turn of session S that persisted its assistant Turn and whose
\* re-embed request was answered, the embedding of S is the encoding of all
\* its utterances joined in order.
C12_ReembedStoresEncoding ==
  pc = "closed" /\ sessionId # NoSession /\ insertOutcome = "ok"
      /\ lastFrame = "done" /\ embedStatus \notin {"none", "rejected"}
    => sessionEmbedding = Present(Encoding(JoinUtterances(userMessages)))

\* C13: the Vector Encoder never throws to its caller: a missing key, a
\* response that is not OK, a transport failure and a malformed response all
\* give a returned list of nulls.
C13_EncoderNeverThrows == encState # "threw"

\* C14: generateEmbeddings returns one entry per input, in input order:
\* entry i is null or the vector of input i, for any number of batches and
\* any order in which the provider lists the results of a batch.
C14_OneResultPerInputInOrder ==
  encState = "returned" /\ encCall.fn = "generateEmbeddings"
    => /\ Len(encReturn) = encCall.n
       /\ \A i \in 1..Len(encReturn) :
            encReturn[i] \in {Absent, Present(ProviderVector(i, "document"))}

\* Two batches, both answered out of order, every input encoded.
C14_Witness ==
  /\ encState = "returned" /\ encCall.fn = "generateEmbeddings"
  /\ encCall.n = BatchSize + 1
  /\ encOrders = <<"desc", "rot">>
  /\ \A i \in 1..encCall.n : encReturn[i] # Absent

\* The rows of the workspace, newest first by `stamp`, at most `limit`.
\* stamp is "created_at" or "updated_at".
Newest(rows, stamp, limit) ==
  [k \in 1..Min(limit, Cardinality(rows)) |->
     (CHOOSE x \in rows :
        Cardinality({y \in rows : y[stamp] > x[stamp]}) = k - 1).id]

\* The request went down the path of a null query embedding and returned.
ReturnedWithoutEmbedding ==
  retPc = "returned" /\ queryEmbedding = Absent /\ retStorage # "none"

C16_DegradedRetrievalNotSurfaced ==
  retEncoder \in {"no_key", "not_ok", "rejects"}
    => /\ httpResponse # "failed"
       /\ retPc \notin {"encoding", "recent", "match", "recent_after_search"}
            => httpResponse = "stream" /\ ragContext.label # "relevant"

\* The ids of the first rows of a ranking that a search with the current
\* match_count reads.
Read(ranking) ==
  {ranking[k] : k \in 1..Min(Len(ranking), 2 * Min(searchParams.match_count, 30))}

Candidates == Read(fullTextRanking) \cup Read(semanticRanking)

Returned == {row.id : row \in fused}

Searched == rankPc \in {"searched", "researched"}

\* C17 as stated: every returned row found in one ranking only has a
\* nonzero score, and no candidate of either ranking is missing from the
\* output.
C17_NothingDropped ==
  Searched
    => /\ \A row \in fused :
            row.id \notin Read(fullTextRanking) \cap Read(semanticRanking)
              => row.score.num > 0
       /\ Candidates \subseteq Returned

\* C17, amended: with positive weights every returned row, one found in one
\* ranking only included, has a nonzero score; the output is match_count
\* rows of the union of the two rankings (each read up to
\* 2 * min(match_count, 30) rows), no row twice, none scoring below a row
\* left out; nothing is left out while the union has at most match_count
\* rows.
C17_UnionTruncatedToMatchCount ==
  Searched
    => /\ searchParams.full_text_weight > 0 /\ searchParams.semantic_weight > 0
            => \A row \in fused : row.score.num > 0
       /\ Returned \subseteq Candidates
       /\ Cardinality(fused) = Cardinality(Returned)
       /\ Cardinality(fused) = Min(searchParams.match_count,
                                   Cardinality(Candidates))
       /\ \A c \in Candidates \ Returned : \A row \in fused :
            AtLeast(row.score,
                    FusedScore(fullTextRanking, semanticRanking,
                               searchParams, c))

\* A row found by the text only and a row found by the vector only are both
\* returned.
C17_Witness ==
  /\ Searched
  /\ searchParams.full_text_weight > 0 /\ searchParams.semantic_weight > 0
  /\ \E a, b \in Returned :
       /\ a \in Read(fullTextRanking) \ Read(semanticRanking)
       /\ b \in Read(semanticRanking) \ Read(fullTextRanking)

\* C18: a row ranked nearer to 1 in one source, or entering it, with its
\* other rank and the parameters as they were, scores at least what it
\* scored before.
C18_PromotionNeverLowersScore ==
  rankPc \in {"promoted", "researched"}
    => AtLeast(FusedScore(fullTextRanking, semanticRanking, searchParams,
                          promotion.id),
               promotion.was)

\* A row that had a score was promoted, scores strictly more than before
\* and is returned by the search that follows.
C18_Witness ==
  /\ rankPc = "researched"
  /\ promotion.was.num > 0
  /\ ~AtLeast(promotion.was,
              FusedScore(fullTextRanking, semanticRanking, searchParams,
                         promotion.id))
  /\ promotion.id \in Returned

\* The background work of request r is in progress or over.
InBackground(r) ==
  \/ op[r].pc \in {"scraping", "enriching", "encoding", "writing"}
  \/ op[r].pc = "done" /\ op[r].outcome # "not_started"

\* C19: the response of POST and of PATCH is produced before the enrichment,
\* the encoder call and the embedding write, and nothing they do changes
\* it: a request whose background work is in progress or over has its 201
\* or 200 already, and a response once given stays.
C19_FireAndForget ==
  [][\A r \in Ops :
       /\ InBackground(r) => op[r].response = (IF r = 0 THEN "201" ELSE "200")
       /\ op[r].response # "none" => op'[r].response = op[r].response]_vars

\* The encoder call of the creation threw and that of an update gave null,
\* after the responses.
C19_Witness ==
  /\ op[0].pc = "done" /\ op[0].outcome = "throws" /\ op[0].response = "201"
  /\ op[1].pc = "done" /\ op[1].outcome = "null" /\ op[1].response = "200"

\* C20: once every request on the item is over and all the indexing work
\* started has stored a vector, the embedding of the row is the encoding of
\* the text built from the row.
C20_EmbeddingMatchesStoredText ==
  (/\ op[0].response = "201"
   /\ \A r \in Ops : op[r].pc \in {"idle", "done"}
   /\ \A r \in Ops : op[r].outcome \in {"none", "not_started", "stored"})
    => item.embedding = Present(Encoding(buildItemText(item)))

\* The cosine of rows p and q of the workspace exceeds one half: the dot
\* product is positive and four times its square exceeds the product of the
\* squared norms.
CosineOverHalf(p, q) ==
  LET a == vecRows[p][1]
      b == vecRows[q][1]
      dot == Dot(a, b, Dim)
  IN dot > 0 /\ 4 * dot * dot > Dot(a, a, Dim) * Dot(b, b, Dim)

\* The edges of the response that join the items of ids p and q.
EdgesBetween(p, q) ==
  LET r == vecResponse
  IN { k \in 1..Len(r.edges) :
         {r.items[r.edges[k].from].id, r.items[r.edges[k].to].id} = {p, q} }

\* C21: in a 200 response the items are the rows that have an embedding;
\* two of them are joined by exactly one edge when the cosine of their
\* embeddings exceeds 0.5 and by none otherwise, a cosine of exactly 0.5
\* included; no edge joins an item to itself, and the similarity of an edge
\* is the cosine of the embeddings of the two rows it joins.
C21_EdgeIffCosineOverHalf ==
  (vecPc = "done" /\ vecResponse.status = "200") =>
    LET r == vecResponse
        ids == {p \in 1..Len(vecRows) : vecRows[p] # Absent}
    IN /\ {r.items[k].id : k \in 1..Len(r.items)} = ids
       /\ \A p, q \in ids :
            Cardinality(EdgesBetween(p, q))
              = (IF p # q /\ CosineOverHalf(p, q) THEN 1 ELSE 0)
       /\ \A k \in 1..Len(r.edges) :
            r.edges[k].similarity
              = cosineSim(vecRows[r.items[r.edges[k].from].id][1],
                          vecRows[r.items[r.edges[k].to].id][1])

\* Two rows whose cosine is exactly 0.5 get no edge while another pair of
\* the same response gets one.
C21_Witness ==
  /\ vecPc = "done" /\ vecResponse.status = "200"
  /\ Len(vecRows) = MaxVecRows
  /\ \E p, q \in 1..Len(vecRows) :
       /\ p < q /\ vecRows[p] # Absent /\ vecRows[q] # Absent
       /\ LET dot == Dot(vecRows[p][1], vecRows[q][1], Dim)
          IN /\ dot > 0
             /\ 4 * dot * dot = Dot(vecRows[p][1], vecRows[p][1], Dim)
                                  * Dot(vecRows[q][1], vecRows[q][1], Dim)
       /\ EdgesBetween(p, q) = {}
  /\ Len(vecResponse.edges) > 0

\* C22: when the first model request is made, the frames sent so far are
\* one `context` frame holding the id and the similarity of each matched
\* row, in order, if the search matched rows, and no frame if it did not or
\* if retrieval fell back to the recent rows; no frame is sent earlier.
C22_ContextFrameBeforeModel ==
  /\ retPc # "create" => sentAtStart = <<>>
  /\ retPc = "create" =>
       IF ragContext.label = "relevant"
         THEN /\ Len(sentAtStart) = 1
              /\ sentAtStart[1].type = "context"
              /\ Len(sentAtStart[1].items) = Len(ragContext.entries)
              /\ Len(ragContext.entries) > 0
              /\ \A k \in 1..Len(ragContext.entries) :
                   /\ sentAtStart[1].items[k].id = ragContext.entries[k]
                   /\ sentAtStart[1].items[k].similarity
                        = MatchedRow(ragContext.entries[k]).similarity
         ELSE sentAtStart = <<>>

\* A turn whose search matched several rows has sent its `context` frame.
C22_Witness ==
  /\ retPc = "create"
  /\ ragContext.label = "relevant"
  /\ Len(sentAtStart) = 1
  /\ Len(sentAtStart[1].items) > 1

\* The calls of the round that have been started.
Started == {k \in DOMAIN callState : callState[k] # "pending"}

\* C23: in a tool round, once a call has been started a `status` frame has
\* been sent for each requested tool, in order, and every requested call
\* has been started; when the next model request is made every call of the
\* round has completed, and the tool-result message holds one block per
\* requested call, in the order of the requests, with the id of the call
\* and the content that call resolved with, whatever the order in which
\* the calls completed.
C23_ToolRoundRunsAllThenContinues ==
  /\ Started # {} =>
       /\ Len(statuses) >= Len(calls)
       /\ \A k \in DOMAIN calls : statuses[k] = ToolLabel(calls[k].name)
       /\ Started = DOMAIN calls
  /\ roundPc = "requested" =>
       /\ \A k \in DOMAIN calls : callState[k] = "done"
       /\ toolResults # Absent
       /\ Len(toolResults[1]) = Len(calls)
       /\ \A k \in DOMAIN calls :
            /\ toolResults[1][k].tool_use_id = calls[k].id
            /\ \E j \in DOMAIN resolved :
                 /\ resolved[j].id = calls[k].id
                 /\ resolved[j].content = toolResults[1][k].content
  /\ roundPc # "requested" /\ half = 1 =>
       Len(statuses) <= Len(calls)

\* Two calls whose contents differ completed in the reverse order of their
\* requests, and the next model request was made.
C23_Witness ==
  /\ roundPc = "requested"
  /\ Len(calls) = MaxCalls
  /\ resolved[1].position = Len(calls)
  /\ resolved[1].content # resolved[Len(resolved)].content

\* C27: every row a tool call of a turn on workspace RequestSpark has read
\* belongs to that workspace.
C27_ToolsReadOnlyRequestSpark ==
  \A j \in DOMAIN resolved :
    \A row \in resolved[j].content.rows : row.spark_id = RequestSpark

\* A side effect made after the answer was produced has failed: the insert
\* of the assistant Turn, the update of the session timestamp or the
\* re-embed request.
SideEffectFailed ==
  \/ insertOutcome \in {"error", "threw"}
  \/ abortCause = "storage"
  \/ embedRequested /\ ~sessionTouched
  \/ embedStatus \in {"rejected", "400"}

\* C24: a turn in which a side effect failed, the client staying connected,
\* writes no `error` frame and ends with the `done` frame.
C24_SideEffectFailureIsSilent ==
  (pc = "closed" /\ streamState = "closed" /\ SideEffectFailed)
    => FramesOf("error") = <<>> /\ lastFrame = "done"

\* The enrichment phase of the Drive item failed: no access token, the
\* request to Drive rejected or was answered with a status that is not OK,
\* or the update with the enriched fields was not written.
DriveEnrichmentFailed ==
  \/ driveFetch \in {"no_token", "threw", "not_ok"}
  \/ /\ drivePc \in {"encoding", "writing", "done", "rejected"}
     /\ driveItem.metadata.drive_export_status = "none"

\* The encoder was called for the Drive item.
DriveEncoderCalled ==
  driveOutcome \in {"throws", "null", "vector", "stored", "write_error"}

\* C25: when the work on a Drive item is over and its enrichment phase
\* failed, the encoder has been called on the content available.
C25_EncodingRunsAfterEnrichmentFailure ==
  (drivePc \in {"done", "rejected"} /\ DriveEnrichmentFailed)
    => DriveEncoderCalled

\* The enrichment phase of the Drive item is over.
DriveEnrichmentOver ==
  drivePc \in {"encoding", "writing", "done", "rejected"}

\* Content of the file was fetched from Drive: exportFileContent gave a
\* text that is not empty.
DriveContentFetched == exportedText # Absent /\ exportedText[1] # 0

\* C26: once the enrichment phase of a Drive item is over, the status
\* written on the item after a request to Drive (or without a token) is
\* `success` exactly when content was fetched, `failed` otherwise.
C26_StatusTellsFetchOutcome ==
  (/\ DriveEnrichmentOver
   /\ driveItem.metadata.drive_export_status # "none"
   /\ driveFetch # "not_sent")
    => (driveItem.metadata.drive_export_status = "success"
          <=> DriveContentFetched)

\* C28: the write-back of scrapeAndEnrich leaves in place the title and
\* the tags an update has written since the creation of the link, and the
\* embedding the chain stores is built from the title and the tags of the
\* row.
C28_EnrichmentKeepsConcurrentUpdate ==
  [][/\ (op[0].pc = "enriching" /\ op'[0].pc = "encoding")
          => /\ item'.title = item.title
             /\ item'.metadata.tags = item.metadata.tags
     /\ (/\ item.type = "link"
         /\ op[0].pc = "writing"
         /\ op'[0].outcome = "stored")
          => /\ op[0].text.title = Present(item.title)
             /\ op[0].text.tags = Part(item.metadata.tags)]_vars

\* What the requests of SessionSpec store: the utterances and the user
\* Turns of S, the sessions created, the assistant Turns, the timestamps
\* written and the re-embed requests sent.
ConversationStorage ==
  <<userMessages, userTurns, newSessions, assistantRows, touched, reembeds>>

\* C29: no step of a request made with skip_persist changes what is
\* stored: it creates no session, appends no utterance, inserts no user and
\* no assistant Turn, writes no timestamp and sends no re-embed request,
\* however its turn ends.
C29_SkipPersistLeavesStorage ==
  [][\A r \in Requests :
       (req'[r] # req[r] /\ req'[r].skip)
         => ConversationStorage' = ConversationStorage]_vars

\* A turn requested with skip_persist on the session S produced an answer
\* and ended with the `done` frame.
C29_Witness ==
  \E r \in TurnRequests :
    /\ req[r].skip /\ req[r].session = "s1"
    /\ req[r].full /\ req[r].pc = "closed"

\* C30: once no request on the session S is between its writes,
\* user_messages of S lists the contents of the user Turns of S in the
\* order of their creation.
C30_UserMessagesMirrorUserTurns ==
  (\A r \in Requests : req[r].pc \in {"idle", "loaded"})
    => userMessages = userTurns

====
